---------------------------- MODULE Spec2Model ----------------------------
(***************************************************************************)
(* Model of the extraction pipeline and the document projector of the      *)
(* RedBus Figma plugin.                                                    *)
(*                                                                         *)
(*   - scrapeWebsite        (vercel-backend/lib/scraper.ts)                *)
(*   - fetchBusesDirectAPI  (vercel-backend/lib/direct-api.ts)             *)
(*   - extractViaXHR / extractViaInjection (xhr-extractor)                 *)
(*   - applyDataLayerItems  (figma-plugin main thread)                     *)
(*                                                                         *)
(* Strings are modelled as sequences of words: the empty string is <<>>,   *)
(* concatenation is \o and s.includes(w) is "w is one of the words of s".  *)
(***************************************************************************)
EXTENDS Integers, Sequences, FiniteSets, TLC

(***************************************************************************)
(* Bounds of the model.                                                    *)
(***************************************************************************)
MaxItems == 2

MaxSelectors == 1

VARIABLES
    request,          \* the ScrapeRequest scrapeWebsite was called with
    pc,               \* position of scrapeWebsite (its await points)
    errors,           \* const errors: string[]            (scraper.ts:75)
    extractionMode,   \* let extractionMode                (scraper.ts:177)
    directOutcome,    \* what the HTTP call of the Direct-API stage met
    directResult,     \* completion of fetchBusesDirectAPI (scraper.ts:89)
    xhrResult,        \* let xhrResult                     (scraper.ts:209)
    results,          \* let results                       (scraper.ts:197)
    dataLayerItems,   \* let dataLayerItems                (scraper.ts:198)
    browser,          \* let browser: "null" or "open"     (scraper.ts:134)
    page,             \* let page: "null" or "open"        (scraper.ts:135)
    closeCalled,      \* resources on which close() has been called
    closeRejected,    \* resources whose close() rejected
    pending,          \* value the try/catch block is about to return
    response,         \* what scrapeWebsite returned to its caller
    stages            \* the extraction stages called so far, in call order

scrapeVars == <<request, pc, errors, extractionMode, directOutcome, directResult,
                xhrResult, results, dataLayerItems, browser, page, closeCalled,
                closeRejected, pending, response, stages>>

\* The plugin's main thread (figma-plugin): the host document and the handler of
\* the 'apply-datalayer' message.
VARIABLES
    document,         \* the host document: its nodes, pages and current page
    selection,        \* figma.currentPage.selection
    fault,            \* the text node whose font cannot be loaded or whose
                      \* text cannot be set, if there is one
    characters,       \* the characters of every TEXT node
    applyPc,          \* position of the 'apply-datalayer' handler
    applyMsg,         \* the message the handler was called with
    applyOutcome,     \* completion of applyDataLayerItems
    attempts,         \* what the two loops of applyDataLayerItems did, in order
    uiMessages        \* the messages posted to the UI, in order

applyVars == <<document, selection, fault, characters, applyPc, applyMsg,
               applyOutcome, attempts, uiMessages>>

\* The plugin's UI (the React component App): its state, the calls of its
\* handlers that are under way, and what it exchanges with the backend and
\* with the plugin's main thread.
VARIABLES
    ui,               \* the React state of App (url, urls, loading, busData, ...)
    tasks,            \* the calls of handleFetch / handleQuickSync, in click order
    requests,         \* the calls of fetchFn (requests to /api/scrape), in order
    timers,           \* the closures setTimeout holds (handleQuickSync)
    posted,           \* the 'apply-datalayer' messages posted, with their reply
    now,              \* Date.now()
    clicksLeft,       \* how many more times the user clicks a button
    failuresLeft      \* how many more times a call of the backend fails

uiVars == <<ui, tasks, requests, timers, posted, now, clicksLeft, failuresLeft>>

\* One call of a pure function of the program: its name, argument and result.
VARIABLES fnName, fnInput, fnOutput

fnVars == <<fnName, fnInput, fnOutput>>

vars == <<scrapeVars, applyVars, uiVars, fnVars>>

(***************************************************************************)
(* Helpers                                                                 *)
(***************************************************************************)
Range(s) == {s[i] : i \in 1..Len(s)}

\* Array.prototype.slice(0, n)
Slice(s, n) == SubSeq(s, 1, IF Len(s) < n THEN Len(s) ELSE n)

\* A list of n provider records; record k is identified by its position.
Items(n) == [k \in 1..n |-> k]


\* A completion of a call: a normal return of `value`, or a throw of `error`.
NoError == [name |-> "", message |-> <<>>]

NoResult == [success |-> FALSE, items |-> <<>>, totalFound |-> 0, errors |-> <<>>]

Return(v) == [threw |-> FALSE, error |-> NoError, value |-> v]

Throw(name, message) ==
    [threw |-> TRUE, error |-> [name |-> name, message |-> message], value |-> NoResult]

\* String(k) for a small number k
NumStr(k) == <<"0", "1", "2", "3", "4", "5", "6", "7", "8", "9">>[k + 1]

\* String.prototype.includes, on a string of words
Includes(s, w) == w \in Range(s)

(***************************************************************************)
(* fetchBusesDirectAPI (direct-api.ts)                                     *)
(***************************************************************************)
\* What the HTTP call and the payload can be.
DirectOutcomes ==
    {[kind |-> "networkError", msg |-> m, n |-> 0, total |-> 0] :
        m \in {<<>>, <<"fetch failed">>}}
    \cup {[kind |-> k, msg |-> <<>>, n |-> 0, total |-> 0] :
        k \in {"abort", "non2xx", "unparsable"}}
    \cup {[kind |-> "payloadFalse", msg |-> m, n |-> 0, total |-> 0] :
        m \in {<<>>, <<"No buses found">>}}
    \cup {[kind |-> "transformThrows", msg |-> <<>>, n |-> k, total |-> k] :
        k \in 1..MaxItems}
    \cup UNION {{[kind |-> "ok", msg |-> <<>>, n |-> k, total |-> t] : t \in {0, k}} :
                    k \in 0..MaxItems}

\* The outcomes in which the request or the payload is bad.
DirectFailureKinds ==
    {"networkError", "abort", "non2xx", "unparsable", "payloadFalse", "transformThrows"}

\* The try block, lines 117-191.
DirectTryBody(o) ==
    CASE o.kind = "networkError" -> Throw("TypeError", o.msg)
      [] o.kind = "abort" -> Throw("AbortError", <<"This operation was aborted">>)
      [] o.kind = "non2xx" ->
            Throw("Error", <<"HTTP", "500:", "Internal Server Error">>)
      [] o.kind = "unparsable" -> Throw("SyntaxError", <<"Unexpected token">>)
      [] o.kind = "payloadFalse" ->
            Throw("Error", IF o.msg # <<>> THEN o.msg
                           ELSE <<"API returned unsuccessful response">>)
      [] o.kind = "transformThrows" ->
            Throw("TypeError", <<"Cannot read properties of null">>)
      [] OTHER ->
            Return([success |-> TRUE, items |-> Items(o.n),
                    totalFound |-> o.total, errors |-> <<>>])

\* A catch block that lets the exception go on.
DirectCatchRethrows(error) == Throw(error.name, error.message)

\* The catch block, lines 193-209.
DirectCatch(error) ==
    LET errorMsg == IF error.name = "AbortError" THEN <<"Request timed out">>
                    ELSE IF error.message # <<>> THEN error.message
                    ELSE <<"Unknown error">>
    IN  Return([success |-> FALSE, items |-> <<>>, totalFound |-> 0,
                errors |-> <<errorMsg>>])

fetchBusesDirectAPI(o) ==
    LET c == DirectTryBody(o)
    IN  IF c.threw THEN DirectCatch(c.error) ELSE c

(***************************************************************************)
(* extractViaXHR, extractViaInjection (xhr-extractor)                      *)
(***************************************************************************)
XhrOutcomes ==
    {[kind |-> k, n |-> 0] : k \in {"none", "scrollThrows"}}
    \cup {[kind |-> "captured", n |-> k] : k \in 0..MaxItems}

\* config.maxItems of XHR_PRESETS.redbus
XhrMaxItems == 50

extractViaXHR(o) ==
    CASE o.kind = "scrollThrows" ->
            Throw("Error", <<"Execution context was destroyed">>)
      [] o.kind = "none" ->
            Return([success |-> FALSE, items |-> <<>>, totalFound |-> 0,
                    errors |-> <<<<"No matching XHR requests intercepted">>>>])
      [] OTHER ->
            LET all == Items(o.n)
                kept == IF Len(all) > XhrMaxItems THEN Slice(all, XhrMaxItems) ELSE all
            IN  Return([success |-> Len(kept) > 0, items |-> kept,
                        totalFound |-> Len(all),
                        errors |-> IF Len(kept) > 0 THEN <<>>
                                   ELSE <<<<"XHR intercepted but no items extracted">>>>])

\* found: the page state holds a bus list of `raw` records, of which the
\* normalizer returns n (all of them, or none when it catches an exception).
InjectionOutcomes ==
    {[kind |-> k, raw |-> 0, n |-> 0] : k \in {"notFound", "evaluateThrows"}}
    \cup UNION {{[kind |-> "found", raw |-> r, n |-> k] : k \in {0, r}} :
                    r \in 1..MaxItems}

extractViaInjection(o) ==
    CASE o.kind = "evaluateThrows" ->
            Return([success |-> FALSE, items |-> <<>>, totalFound |-> 0,
                    errors |-> <<<<"Injection extraction failed:", "Protocol error">>>>])
      [] o.kind = "notFound" ->
            Return([success |-> FALSE, items |-> <<>>, totalFound |-> 0,
                    errors |-> <<<<"Could not find bus data in page state">>>>])
      [] OTHER ->
            Return([success |-> o.n > 0, items |-> Items(o.n),
                    totalFound |-> o.n, errors |-> <<>>])

(***************************************************************************)
(* createDataLayerExtractorScript (datalayer-extractor.ts) and             *)
(* createExtractorScript (selector-extractor.ts), as scrapeWebsite sees    *)
(* them through page.evaluate                                              *)
(***************************************************************************)
DataLayerOutcomes ==
    {[kind |-> k, n |-> 0] : k \in {"evaluateThrows", "noDataLayer", "noEvents", "scriptError"}}
    \cup {[kind |-> "items", n |-> k] : k \in 0..MaxItems}

\* config.maxItems of every DATALAYER_PRESETS entry, and the script's default
DataLayerMaxItems == 50

dataLayerExtractor(o) ==
    CASE o.kind = "evaluateThrows" ->
            Throw("Error", <<"Protocol error">>)
      [] o.kind = "noDataLayer" ->
            Return([success |-> FALSE, items |-> <<>>, totalFound |-> 0,
                    errors |-> <<<<"dataLayer not found or not an array">>>>])
      [] o.kind = "noEvents" ->
            Return([success |-> FALSE, items |-> <<>>, totalFound |-> 0,
                    errors |-> <<<<"No matching events found in dataLayer">>>>])
      [] o.kind = "scriptError" ->
            Return([success |-> FALSE, items |-> <<>>, totalFound |-> 0,
                    errors |-> <<<<"Extraction error:", "x is not a function">>>>])
      [] OTHER ->
            Return([success |-> TRUE, items |-> Slice(Items(o.n), DataLayerMaxItems),
                    totalFound |-> o.n, errors |-> <<>>])

\* The ExtractedResult of item k of a list of provider records (lines 97-102,
\* 233-238, 270-275): id `item_${k-1}`, data JSON.stringify(item).
ItemResult(item, k) ==
    [id |-> <<"item_", NumStr(k - 1)>>, found |-> TRUE, data |-> <<"json", item>>,
     error |-> <<>>]

ToResults(items) == [k \in 1..Len(items) |-> ItemResult(items[k], k)]

\* The selector extractor's result for selector k: found, or not found with
\* an error string.
SelectorResult(k, found) ==
    [id |-> <<"sel_", NumStr(k)>>, found |-> found,
     data |-> IF found THEN <<"text", k>> ELSE <<>>,
     error |-> IF found THEN <<>> ELSE <<"Element not found">>]

(***************************************************************************)
(* scrapeWebsite (scraper.ts)                                              *)
(***************************************************************************)
\* A URL: whether new URL(url) parses it, whether it contains 'redbus.',
\* and which of the search parameters its query holds.
URLs ==
    {[valid |-> TRUE, redbus |-> TRUE, fromCityId |-> f, toCityId |-> t, date |-> d] :
        f \in BOOLEAN, t \in BOOLEAN, d \in {"none", "onward", "doj"}}
    \cup {[valid |-> TRUE, redbus |-> FALSE, fromCityId |-> b, toCityId |-> b,
           date |-> IF b THEN "onward" ELSE "none"] : b \in BOOLEAN}
    \cup {[valid |-> FALSE, redbus |-> r, fromCityId |-> FALSE, toCityId |-> FALSE,
           date |-> "none"] : r \in BOOLEAN}

ExtractionModes == {"selectors", "dataLayer", "xhr", "direct", "auto"}

\* request.selectors is a list of `selectors` descriptors; fallbackOnError
\* FALSE is an explicit false, TRUE is true or left undefined.
Requests ==
    [url : URLs, selectors : 0..MaxSelectors, extractionMode : ExtractionModes,
     fallbackOnError : BOOLEAN, maxResults : 1..MaxItems]

\* parseRedBusUrl(url) !== null
parseRedBusUrl(url) ==
    IF ~url.valid THEN FALSE
    ELSE ~(~url.fromCityId \/ ~url.toCityId \/ url.date = "none")

\* line 79-80
canUseDirectApi(url) == url.redbus /\ parseRedBusUrl(url)

\* detectPreset(url): 'redbus' or null
detectPreset(url) == IF url.redbus THEN "redbus" ELSE "null"

\* The presets XHR_PRESETS has.
XhrPresetNames == {"redbus"}

\* lines 177-194: the extraction mode the browser part starts with
DetermineModeDataLayerFirst(req) ==
    IF req.extractionMode = "auto"
    THEN IF detectPreset(req.url) # "null" THEN "dataLayer" ELSE "selectors"
    ELSE req.extractionMode

DetermineMode(req) ==
    IF req.extractionMode = "auto"
    THEN IF detectPreset(req.url) # "null" /\ detectPreset(req.url) \in XhrPresetNames
         THEN "xhr"
         ELSE IF detectPreset(req.url) # "null" THEN "dataLayer"
         ELSE "selectors"
    ELSE req.extractionMode

\* lines 246 and 277: the if / else that follows the xhr block
SecondBranch(mode) == IF mode = "dataLayer" THEN "dataLayer" ELSE "selectors"

\* line 202, then 246
FirstBranch(mode) == IF mode = "xhr" THEN "xhr" ELSE SecondBranch(mode)

\* Messages an exception of the browser part can carry.
ThrowMessages ==
    { <<>>,
      <<"net::ERR_NAME_NOT_RESOLVED", "at", "url">>,
      <<"net::ERR_CONNECTION_REFUSED", "at", "url">>,
      <<"Navigation", "timeout", "of 30000 ms exceeded">>,
      <<"net::ERR_ABORTED", "at", "url">>,
      <<"Protocol error">> }

\* lines 317-329
friendlyError(message) ==
    LET errorMessage == IF message # <<>> THEN message ELSE <<"Unknown scraping error">>
    IN  IF Includes(errorMessage, "net::ERR_NAME_NOT_RESOLVED")
        THEN <<"Website not found. Please check the URL.">>
        ELSE IF Includes(errorMessage, "net::ERR_CONNECTION_REFUSED")
        THEN <<"Could not connect to website. It may be down or blocking access.">>
        ELSE IF Includes(errorMessage, "timeout")
        THEN <<"Website took too long to load. Try again or increase timeout.">>
        ELSE IF Includes(errorMessage, "net::ERR_ABORTED")
        THEN <<"Request was blocked. This website may restrict automated access.">>
        ELSE errorMessage

UndefinedItems == [defined |-> FALSE, v |-> <<>>]

SomeItems(items) == [defined |-> TRUE, v |-> items]

NoResponse ==
    [kind |-> "none", success |-> FALSE, results |-> <<>>, errors |-> <<>>,
     extractionMode |-> "undefined", dataLayerItems |-> UndefinedItems]

Response(success, res, errs, mode, items) ==
    [kind |-> "returned", success |-> success, results |-> res, errors |-> errs,
     extractionMode |-> mode, dataLayerItems |-> items]

\* scrapeWebsite's promise rejects: an exception left the function.
Rejected == [NoResponse EXCEPT !.kind = "rejected"]

\* A stage that was called, the number of items it returned and its error
\* list (for a stage that threw, the message the catch block makes of it).
Stage(name, n, errs) == [name |-> name, items |-> n, errors |-> errs]

NoOutcome == [kind |-> "none", msg |-> <<>>, n |-> 0, total |-> 0]

\* The catch block (lines 316-341) followed by the entry of the finally
\* block: the response to return once the resources are closed.
CatchResponse(message) ==
    Response(FALSE, <<>>, <<friendlyError(message)>>, "undefined", UndefinedItems)

\* Entry of the finally block (lines 342-349): the first close to await.
FinallyPc(pg, br) ==
    IF pg # "null" THEN "closePage"
    ELSE IF br # "null" THEN "closeBrowser"
    ELSE "done"

\* page.close().catch(() => {}) and browser.close().catch(() => {}): a
\* rejection of close() is swallowed.
CloseUncaught(rejected) ==
    IF rejected THEN Throw("Error", <<"Target closed">>) ELSE Return(NoResult)

CloseCaught(rejected) == Return(NoResult)

\* A step inside the try block throws `message`.
Thrown(message, pg, br) ==
    /\ pending' = CatchResponse(message)
    /\ pc' = FinallyPc(pg, br)
    /\ response' = IF FinallyPc(pg, br) = "done"
                   THEN CatchResponse(message) ELSE response

\* The try block reaches its return statement (lines 301-315).
Returned(res, errs, mode, items) ==
    /\ pending' = Response(TRUE, res, errs, mode, items)
    /\ pc' = FinallyPc(page, browser)
    /\ response' = IF FinallyPc(page, browser) = "done"
                   THEN Response(TRUE, res, errs, mode, items) ELSE response

\* The Direct-API messages are not carried over.
FallbackErrorsDropped(errs, r) == errs

\* line 115: errors.push(...directResult.errors)
FallbackErrors(errs, r) == errs \o r.errors

\* The dataLayer messages are never pushed.
DataLayerErrorsDropped(errs, r) == errs

\* lines 262-264: if (!dataLayerResult.success) errors.push(...)
DataLayerErrors(errs, r) == IF ~r.success THEN errs \o r.errors ELSE errs

\* The plugin while the backend is looked at on its own: no document
\* is open and no message is handled.
NoDocument == [nodes |-> <<>>, pages |-> <<>>, currentPage |-> 0]

NoFault == [kind |-> "none", node |-> 0]

NoMessage == [type |-> "none", items |-> <<>>, scope |-> "selection"]

NoApplyOutcome ==
    [threw |-> FALSE, message |-> <<>>, updated |-> 0, failed |-> 0]

\* The UI while another part is looked at on its own: it is not open.
UiIdle ==
    /\ ui = [open |-> FALSE]
    /\ tasks = <<>>
    /\ requests = <<>>
    /\ timers = <<>>
    /\ posted = <<>>
    /\ now = 0
    /\ clicksLeft = 0
    /\ failuresLeft = 0

\* No function is called.
FnIdle ==
    /\ fnName = "none"
    /\ fnInput = <<>>
    /\ fnOutput = <<>>

ApplyIdle ==
    /\ document = NoDocument
    /\ selection = <<>>
    /\ fault = NoFault
    /\ characters = <<>>
    /\ applyPc = "off"
    /\ applyMsg = NoMessage
    /\ applyOutcome = NoApplyOutcome
    /\ attempts = <<>>
    /\ uiMessages = <<>>

Init ==
    /\ ApplyIdle
    /\ UiIdle
    /\ FnIdle
    /\ request \in Requests
    /\ pc = "start"
    /\ errors = <<>>
    /\ extractionMode = "undefined"
    /\ directOutcome = NoOutcome
    /\ directResult = Return(NoResult)
    /\ xhrResult = NoResult
    /\ results = <<>>
    /\ dataLayerItems = UndefinedItems
    /\ browser = "null"
    /\ page = "null"
    /\ closeCalled = {}
    /\ closeRejected = {}
    /\ pending = NoResponse
    /\ response = NoResponse
    /\ stages = <<>>

\* lines 83-131: the Direct-API stage
DirectApiStage ==
    /\ UNCHANGED <<applyVars, uiVars, fnVars>>
    /\ pc = "start"
    /\ request.extractionMode \in {"direct", "auto"}
    /\ canUseDirectApi(request.url)
    /\ \E o \in DirectOutcomes :
        LET c == fetchBusesDirectAPI(o)
            r == c.value
        IN  /\ directOutcome' = o
            /\ directResult' = c
            /\ stages' = Append(stages, Stage("direct", Len(r.items), r.errors))
            /\ IF c.threw
               THEN /\ response' = Rejected
                    /\ pc' = "done"
                    /\ errors' = errors
               ELSE IF r.success /\ Len(r.items) > 0
               THEN /\ response' = Response(TRUE, ToResults(r.items), r.errors,
                                            "direct", SomeItems(r.items))
                    /\ pc' = "done"
                    /\ errors' = errors
               ELSE IF request.fallbackOnError
               THEN /\ errors' = FallbackErrors(errors, r)
                    /\ pc' = "getBrowser"
                    /\ response' = response
               ELSE /\ response' = Response(FALSE, <<>>, r.errors, "direct",
                                            UndefinedItems)
                    /\ pc' = "done"
                    /\ errors' = errors
    /\ UNCHANGED <<request, extractionMode, xhrResult, results, dataLayerItems,
                   browser, page, closeCalled, closeRejected, pending>>

\* line 83 is false: straight to the browser part
SkipDirectApi ==
    /\ UNCHANGED <<applyVars, uiVars, fnVars>>
    /\ pc = "start"
    /\ ~(request.extractionMode \in {"direct", "auto"} /\ canUseDirectApi(request.url))
    /\ pc' = "getBrowser"
    /\ UNCHANGED <<request, errors, extractionMode, directOutcome, directResult,
                   xhrResult, results, dataLayerItems, browser, page, closeCalled,
                   closeRejected, pending, response, stages>>

\* line 138
GetBrowser ==
    /\ UNCHANGED <<applyVars, uiVars, fnVars>>
    /\ pc = "getBrowser"
    /\ \/ /\ browser' = "open"
          /\ pc' = "newPage"
          /\ UNCHANGED <<pending, response>>
       \/ /\ browser' = browser
          /\ \E m \in ThrowMessages : Thrown(m, page, browser)
    /\ UNCHANGED <<request, errors, extractionMode, directOutcome, directResult,
                   xhrResult, results, dataLayerItems, page, closeCalled,
                   closeRejected, stages>>

\* line 139
NewPage ==
    /\ UNCHANGED <<applyVars, uiVars, fnVars>>
    /\ pc = "newPage"
    /\ \/ /\ page' = "open"
          /\ pc' = "pageSetup"
          /\ UNCHANGED <<pending, response>>
       \/ /\ page' = page
          /\ \E m \in ThrowMessages : Thrown(m, page, browser)
    /\ UNCHANGED <<request, errors, extractionMode, directOutcome, directResult,
                   xhrResult, results, dataLayerItems, browser, closeCalled,
                   closeRejected, stages>>

\* lines 141-159: setUserAgent, setViewport, setRequestInterception
PageSetup ==
    /\ UNCHANGED <<applyVars, uiVars, fnVars>>
    /\ pc = "pageSetup"
    /\ \/ /\ pc' = "navigate"
          /\ UNCHANGED <<pending, response>>
       \/ \E m \in ThrowMessages : Thrown(m, page, browser)
    /\ UNCHANGED <<request, errors, extractionMode, directOutcome, directResult,
                   xhrResult, results, dataLayerItems, browser, page, closeCalled,
                   closeRejected, stages>>

\* lines 161-194: page.goto, waitForSelector, then the extraction mode
Navigate ==
    /\ UNCHANGED <<applyVars, uiVars, fnVars>>
    /\ pc = "navigate"
    /\ \/ /\ extractionMode' = DetermineMode(request)
          /\ pc' = FirstBranch(DetermineMode(request))
          /\ UNCHANGED <<pending, response>>
       \/ /\ extractionMode' = extractionMode
          /\ \E m \in ThrowMessages : Thrown(m, page, browser)
    /\ UNCHANGED <<request, errors, directOutcome, directResult, xhrResult, results,
                   dataLayerItems, browser, page, closeCalled, closeRejected,
                   stages>>

\* lines 223-230: the items of a successful xhr or injection result, cut to
\* options.maxResults
CapToMaxResults(items, maxResults) ==
    IF maxResults # 0 /\ Len(items) > maxResults THEN Slice(items, maxResults)
    ELSE items

\* lines 222-243: a non-empty xhr or injection result is taken over; control
\* then reaches the if of line 246
AcceptXhrResult(r) ==
    /\ dataLayerItems' = SomeItems(CapToMaxResults(r.items, request.maxResults))
    /\ results' = ToResults(CapToMaxResults(r.items, request.maxResults))
    /\ errors' = errors \o r.errors
    /\ pc' = SecondBranch(extractionMode')
    /\ UNCHANGED <<pending, response>>

\* lines 202-212: XHR interception
ExtractViaXHR ==
    /\ UNCHANGED <<applyVars, uiVars, fnVars>>
    /\ pc = "xhr"
    /\ \E o \in XhrOutcomes :
        LET c == extractViaXHR(o)
            r == c.value
        IN  /\ stages' = Append(stages,
                    Stage("xhr", Len(r.items),
                          IF c.threw THEN <<friendlyError(c.error.message)>>
                          ELSE r.errors))
            /\ extractionMode' = extractionMode
            /\ IF c.threw
               THEN /\ Thrown(c.error.message, page, browser)
                    /\ UNCHANGED <<xhrResult, results, dataLayerItems, errors>>
               ELSE /\ xhrResult' = r
                    /\ IF ~r.success \/ Len(r.items) = 0
                       THEN /\ pc' = "injection"
                            /\ UNCHANGED <<results, dataLayerItems, errors, pending,
                                           response>>
                       ELSE AcceptXhrResult(r)
    /\ UNCHANGED <<request, directOutcome, directResult, browser, page, closeCalled,
                   closeRejected>>

\* lines 212-221: page injection, then the fall back to dataLayer
ExtractViaInjection ==
    /\ UNCHANGED <<applyVars, uiVars, fnVars>>
    /\ pc = "injection"
    /\ \E o \in InjectionOutcomes :
        LET r == extractViaInjection(o).value
        IN  /\ stages' = Append(stages, Stage("injection", Len(r.items), r.errors))
            /\ xhrResult' = r
            /\ IF ~r.success \/ Len(r.items) = 0
               THEN /\ extractionMode' = "dataLayer"
                    /\ pc' = SecondBranch("dataLayer")
                    /\ UNCHANGED <<results, dataLayerItems, errors, pending, response>>
               ELSE /\ extractionMode' = extractionMode
                    /\ AcceptXhrResult(r)
    /\ UNCHANGED <<request, directOutcome, directResult, browser, page, closeCalled,
                   closeRejected>>

\* lines 246-276, 299-315: dataLayer extraction and the return
DataLayerStage ==
    /\ UNCHANGED <<applyVars, uiVars, fnVars>>
    /\ pc = "dataLayer"
    /\ \E o \in DataLayerOutcomes :
        LET c == dataLayerExtractor(o)
            r == c.value
            errs == DataLayerErrors(errors, r)
        IN  /\ stages' = Append(stages,
                    Stage("dataLayer", Len(r.items),
                          IF c.threw THEN <<friendlyError(c.error.message)>>
                          ELSE r.errors))
            /\ IF c.threw
               THEN /\ Thrown(c.error.message, page, browser)
                    /\ UNCHANGED <<results, dataLayerItems, errors>>
               ELSE /\ errors' = errs
                    /\ dataLayerItems' = SomeItems(r.items)
                    /\ results' = ToResults(r.items)
                    /\ Returned(ToResults(r.items), errs, extractionMode,
                                SomeItems(r.items))
    /\ UNCHANGED <<request, extractionMode, directOutcome, directResult, xhrResult,
                   browser, page, closeCalled, closeRejected>>

\* lines 292-296: `${result.id}: ${result.error}` of every result not found
SelectorErrors(res) ==
    LET bad == SelectSeq(res, LAMBDA x : ~x.found /\ x.error # <<>>)
    IN  [k \in 1..Len(bad) |-> bad[k].id \o <<":">> \o bad[k].error]

\* lines 277-297, 299-315: selector extraction and the return
SelectorStage ==
    /\ UNCHANGED <<applyVars, uiVars, fnVars>>
    /\ pc = "selectors"
    /\ \/ /\ \E m \in ThrowMessages :
                /\ Thrown(m, page, browser)
                /\ stages' = Append(stages, Stage("selectors", 0, <<friendlyError(m)>>))
          /\ UNCHANGED <<results, errors>>
       \/ \E found \in SUBSET (1..request.selectors) :
            LET res == [k \in 1..request.selectors |-> SelectorResult(k, k \in found)]
                errs == errors \o SelectorErrors(res)
            IN  /\ stages' = Append(stages,
                        Stage("selectors", Cardinality(found), SelectorErrors(res)))
                /\ results' = res
                /\ errors' = errs
                /\ Returned(res, errs, extractionMode, dataLayerItems)
    /\ UNCHANGED <<request, extractionMode, directOutcome, directResult, xhrResult,
                   dataLayerItems, browser, page, closeCalled, closeRejected>>

\* lines 343-345
ClosePage ==
    /\ UNCHANGED <<applyVars, uiVars, fnVars>>
    /\ pc = "closePage"
    /\ closeCalled' = closeCalled \cup {"page"}
    /\ \E rejected \in BOOLEAN :
        /\ closeRejected' = IF rejected THEN closeRejected \cup {"page"}
                            ELSE closeRejected
        /\ IF CloseCaught(rejected).threw
           THEN /\ response' = Rejected
                /\ pc' = "done"
           ELSE IF browser # "null"
           THEN /\ pc' = "closeBrowser"
                /\ response' = response
           ELSE /\ pc' = "done"
                /\ response' = pending
    /\ UNCHANGED <<request, errors, extractionMode, directOutcome, directResult,
                   xhrResult, results, dataLayerItems, browser, page, pending, stages>>

\* lines 346-348, and the return of the pending response
CloseBrowser ==
    /\ UNCHANGED <<applyVars, uiVars, fnVars>>
    /\ pc = "closeBrowser"
    /\ closeCalled' = closeCalled \cup {"browser"}
    /\ \E rejected \in BOOLEAN :
        /\ closeRejected' = IF rejected THEN closeRejected \cup {"browser"}
                            ELSE closeRejected
        /\ IF CloseCaught(rejected).threw
           THEN response' = Rejected
           ELSE response' = pending
    /\ pc' = "done"
    /\ UNCHANGED <<request, errors, extractionMode, directOutcome, directResult,
                   xhrResult, results, dataLayerItems, browser, page, pending, stages>>

Next ==
    \/ DirectApiStage
    \/ SkipDirectApi
    \/ GetBrowser
    \/ NewPage
    \/ PageSetup
    \/ Navigate
    \/ ExtractViaXHR
    \/ ExtractViaInjection
    \/ DataLayerStage
    \/ SelectorStage
    \/ ClosePage
    \/ CloseBrowser

Spec == Init /\ [][Next]_vars

(***************************************************************************)
(* Properties of scrapeWebsite                                             *)
(***************************************************************************)
\* The stages that return a list of items.
ItemStageNames == {"direct", "xhr", "injection", "dataLayer"}

StageNames == [i \in DOMAIN stages |-> stages[i].name]

LastStage == stages[Len(stages)]

IsPrefix(a, b) == Len(a) <= Len(b) /\ a = SubSeq(b, 1, Len(a))

\* The response comes from the catch block.
Threw ==
    /\ response.kind = "returned"
    /\ ~response.success
    /\ response.extractionMode = "undefined"

\* An 'auto' request for the provider that has an XHR preset.
KnownProviderAuto ==
    /\ request.extractionMode = "auto"
    /\ detectPreset(request.url) \in XhrPresetNames

\* C1: a stage runs only if every earlier stage that ran produced zero
\* items: once a stage has returned a non-empty item list, no later stage
\* (Selector extraction included) is called.
C1_StopsAtFirstNonEmpty ==
    \A i, j \in DOMAIN stages :
        (i < j /\ stages[i].name \in ItemStageNames) => stages[i].items = 0

\* The chain of an 'auto' request for the known provider.
ExpectedChain ==
    IF canUseDirectApi(request.url)
    THEN <<"direct", "xhr", "injection", "dataLayer">>
    ELSE <<"xhr", "injection", "dataLayer">>

\* The stages called, Selector extraction left out.
Chain == SelectSeq(StageNames, LAMBDA n : n # "selectors")

\* The four stages are called in the order Direct-API, XHR-Intercept,
\* Injection, DataLayer, none skipped, each after the one before it returned
\* nothing; a request answered from the try block with no item at all has
\* gone through all of them.
ChainInOrder ==
    KnownProviderAuto =>
        /\ IsPrefix(Chain, ExpectedChain)
        /\ \A i \in 1..(Len(stages) - 1) :
              stages[i + 1].name # "selectors" => stages[i].items = 0
        /\ ( /\ pc = "done"
             /\ response.success
             /\ \A i \in DOMAIN stages :
                   stages[i].name \in ItemStageNames => stages[i].items = 0 )
           => Chain = ExpectedChain

\* C2 as claimed: in 'auto' mode for the known provider the stages run in the
\* order Direct-API, XHR-Intercept, Injection, DataLayer, and when DataLayer
\* has yielded nothing too and selectors were supplied, Selector extraction
\* is attempted last.
C2_SelectorsAfterDataLayer ==
    /\ ChainInOrder
    /\ ( /\ KnownProviderAuto
         /\ pc = "done"
         /\ response.success
         /\ request.selectors > 0
         /\ \E i \in DOMAIN stages :
               stages[i].name = "dataLayer" /\ stages[i].items = 0 )
       => \E j \in DOMAIN stages : stages[j].name = "selectors"

\* C2 as amended: in 'auto' mode for the known provider the stages run in the
\* order Direct-API, XHR-Intercept, Injection, DataLayer, and DataLayer is the
\* last stage: no Selector extraction is attempted once DataLayer has run,
\* whether or not selectors were supplied.
C2_DataLayerIsLast ==
    /\ ChainInOrder
    /\ KnownProviderAuto =>
          \A i \in DOMAIN stages : stages[i].name = "dataLayer" => i = Len(stages)

C2_Witness ==
    /\ KnownProviderAuto
    /\ pc = "done"
    /\ response.success
    /\ request.selectors > 0
    /\ StageNames = <<"direct", "xhr", "injection", "dataLayer">>
    /\ LastStage.items = 0

\* C3: whenever the Direct-API stage was attempted and failed (success false
\* or zero items) and fallbackOnError is not false, the next stage attempted
\* is XHR-Intercept, for extractionMode 'direct' as for 'auto'.
C3_DirectFallsBackToXhr ==
    \A i \in 1..(Len(stages) - 1) :
        (stages[i].name = "direct" /\ request.fallbackOnError)
            => stages[i + 1].name = "xhr"

\* The Direct-API stage ran and failed.
DirectStageFailed ==
    /\ Len(stages) >= 1
    /\ stages[1].name = "direct"
    /\ ~directResult.threw
    /\ ~directResult.value.success \/ Len(directResult.value.items) = 0

\* A stage after the first returned a non-empty item list.
LaterStageNonEmpty ==
    \E j \in 2..Len(stages) :
        stages[j].name \in ItemStageNames /\ stages[j].items > 0

AllStagesFailed ==
    /\ Len(stages) >= 1
    /\ \A i \in DOMAIN stages : stages[i].items = 0

\* The error list of the Direct-API stage, when it ran.
DirectStageErrors == IF stages[1].name = "direct" THEN stages[1].errors ELSE <<>>

\* C5 as claimed: when every strategy of the chain fails, the errors list of
\* the response is exactly the error list of the last strategy that ran,
\* with no message of an earlier stage (here for an 'auto' request answered
\* from the try block).
C5_OnlyLastStageErrors ==
    ( /\ pc = "done"
      /\ response.kind = "returned"
      /\ request.extractionMode = "auto"
      /\ AllStagesFailed
      /\ ~Threw )
    => response.errors = LastStage.errors

\* C5 as amended: when every strategy fails, the errors list of the response
\* is the error list of the last strategy that ran, preceded by the messages
\* of the failed Direct-API stage when that stage ran before it; messages of
\* the XHR and Injection stages are never included. When a step of the
\* browser part threw, the errors list is that exception's message alone.
C5_DirectThenLastStageErrors ==
    (pc = "done" /\ response.kind = "returned" /\ AllStagesFailed) =>
        IF Threw
        THEN /\ Len(response.errors) = 1
             /\ Range(response.errors) \cap Range(DirectStageErrors) = {}
             /\ LastStage.name # "direct" => response.errors = LastStage.errors
        ELSE response.errors =
                DirectStageErrors
                \o (IF LastStage.name = "direct" THEN <<>> ELSE LastStage.errors)

C5_Witness ==
    /\ pc = "done"
    /\ AllStagesFailed
    /\ ~Threw
    /\ StageNames = <<"direct", "xhr", "injection", "dataLayer">>
    /\ stages[1].errors # <<>>
    /\ stages[2].errors # <<>>
    /\ LastStage.errors # <<>>
    /\ response.errors = stages[1].errors \o LastStage.errors

\* C6: fetchBusesDirectAPI never throws: on a network error, a timeout, a
\* non-2xx status, an unparsable body, a payload with success false or an
\* exception while transforming a record it returns success=false, no items,
\* totalFound=0 and a non-empty errors list.
C6_DirectApiNeverThrows ==
    directOutcome.kind # "none" =>
        /\ ~directResult.threw
        /\ response.kind # "rejected"
        /\ directOutcome.kind \in DirectFailureKinds =>
              /\ ~directResult.value.success
              /\ directResult.value.items = <<>>
              /\ directResult.value.totalFound = 0
              /\ directResult.value.errors # <<>>
              /\ \A k \in DOMAIN directResult.value.errors :
                    directResult.value.errors[k] # <<>>

C6_Witness ==
    /\ directOutcome.kind = "transformThrows"
    /\ ~directResult.threw
    /\ directResult.value.errors # <<>>

\* C7: when scrapeWebsite returns, close() has been called on every browser
\* and page it opened, whatever happened in between (a rejected page.close
\* does not keep browser.close from being called); when the Direct-API
\* stage succeeds no browser is opened.
C7_ResourcesClosed ==
    /\ response.kind # "none" =>
          /\ browser = "open" => "browser" \in closeCalled
          /\ page = "open" => "page" \in closeCalled
          /\ response.kind = "returned"
    /\ ( /\ directOutcome.kind # "none"
         /\ ~directResult.threw
         /\ directResult.value.success
         /\ Len(directResult.value.items) > 0 )
       => (browser = "null" /\ page = "null" /\ closeCalled = {})

C7_Witness ==
    /\ pc = "done"
    /\ response.kind = "returned"
    /\ "page" \in closeRejected
    /\ "browser" \in closeCalled
    /\ Threw


(***************************************************************************)
(* The plugin (figma-plugin/src/types/messages.ts): the host               *)
(* document                                                                *)
(***************************************************************************)
\* The records of one 'apply-datalayer' message are at most this many.
MaxRecords == 2

\* A layer name is a sequence of tokens: a word, a frame tag "@[n]" or a
\* field tag "@{f}".  A tag that does not match its pattern is a word.
Word(text) == [kind |-> "word", text |-> text, n |-> 0]

FrameTag(n) == [kind |-> "frameTag", text |-> "", n |-> n]

FieldTag(f) == [kind |-> "fieldTag", text |-> f, n |-> 0]

\* The first token of `name` of the given kind, as a list of zero or one
\* token: String.prototype.match without the g flag returns the first match.
RECURSIVE FirstMatch(_, _)
FirstMatch(name, kind) ==
    IF name = <<>> THEN <<>>
    ELSE IF Head(name).kind = kind THEN <<Head(name)>>
    ELSE FirstMatch(Tail(name), kind)

\* name.match(/@\[(\d+)\]/): <<parseInt(match[1], 10)>>, or <<>> for null
parseFrameIndex(name) ==
    LET match == FirstMatch(name, "frameTag")
    IN  IF match # <<>> THEN <<match[1].n>> ELSE <<>>

\* name.match(/@\{([^}]+)\}/): <<match[1]>>, or <<>> for null
parseFieldName(name) ==
    LET match == FirstMatch(name, "fieldTag")
    IN  IF match # <<>> THEN <<match[1].text>> ELSE <<>>

\* A SceneNode (or a PageNode): its name, its type and its children.  Only
\* the types that have no 'children' property have an empty list here.
Node(name, type, children) == [name |-> name, type |-> type, children |-> children]

\* The frame tags a layer of a document can carry: none, or an ordinal; the
\* ordinal MaxRecords is one no record of a message has.
FrameTags == {<<>>} \cup {<<FrameTag(n)>> : n \in 0..MaxRecords}

\* The second page of every document: one card, tagged for record 0.
OtherPage ==
    <<Node(<<Word("Page 2")>>, "PAGE", <<3>>),
      Node(<<Word("Card"), FrameTag(0)>>, "FRAME", <<4>>),
      Node(<<FieldTag("name")>>, "TEXT", <<>>)>>

\* Two sibling cards, each with a name and a price layer.
SiblingCards(a, b) ==
    <<Node(<<Word("Page 1")>>, "PAGE", <<5, 8>>)>> \o OtherPage \o
    <<Node(<<Word("Card")>> \o a, "FRAME", <<6, 7>>),
      Node(<<FieldTag("name")>>, "TEXT", <<>>),
      Node(<<FieldTag("price")>>, "TEXT", <<>>),
      Node(<<Word("Card")>> \o b, "FRAME", <<9, 10>>),
      Node(<<FieldTag("name")>>, "TEXT", <<>>),
      Node(<<FieldTag("price")>>, "TEXT", <<>>)>>

\* A card that holds another tagged frame.
NestedCards(a, b) ==
    <<Node(<<Word("Page 1")>>, "PAGE", <<5>>)>> \o OtherPage \o
    <<Node(<<Word("Card")>> \o a, "FRAME", <<6, 7>>),
      Node(<<FieldTag("name")>>, "TEXT", <<>>),
      Node(<<Word("Inner")>> \o b, "FRAME", <<8, 9>>),
      Node(<<FieldTag("price")>>, "TEXT", <<>>),
      Node(<<FieldTag("name")>>, "TEXT", <<>>)>>

\* Field layers that are containers, one with a text node inside and one
\* without; and a text node that carries a frame tag and a field tag.
WrappedFields(a, b) ==
    <<Node(<<Word("Page 1")>>, "PAGE", <<5, 11>>)>> \o OtherPage \o
    <<Node(<<Word("Card")>> \o a, "FRAME", <<6, 9>>),
      Node(<<FieldTag("name")>>, "FRAME", <<7, 8>>),
      Node(<<Word("bg")>>, "RECTANGLE", <<>>),
      Node(<<Word("label")>>, "TEXT", <<>>),
      Node(<<FieldTag("price")>>, "FRAME", <<10>>),
      Node(<<Word("icon")>>, "RECTANGLE", <<>>),
      Node(<<Word("Title")>> \o b \o <<FieldTag("name")>>, "TEXT", <<>>)>>

\* Two layers of one field name in a card; a card inside an untagged
\* container, with a layer whose name holds two field tags.
RepeatedFields(a, b) ==
    <<Node(<<Word("Page 1")>>, "PAGE", <<5, 9>>)>> \o OtherPage \o
    <<Node(<<Word("Card")>> \o a, "FRAME", <<6, 7>>),
      Node(<<FieldTag("name")>>, "TEXT", <<>>),
      Node(<<Word("row")>>, "GROUP", <<8>>),
      Node(<<FieldTag("name")>>, "TEXT", <<>>),
      Node(<<Word("List")>>, "FRAME", <<10>>),
      Node(<<Word("Card")>> \o b, "FRAME", <<11>>),
      Node(<<FieldTag("price"), FieldTag("name")>>, "TEXT", <<>>)>>

\* figma.root: the nodes by their id, the pages, and the current page.
Documents ==
    {[nodes |-> n, pages |-> <<1, 2>>, currentPage |-> 1] :
        n \in UNION {{SiblingCards(a, b), NestedCards(a, b), WrappedFields(a, b),
                      RepeatedFields(a, b)} : a \in FrameTags, b \in FrameTags}}


\* The nodes below node n (node.children, recursively).
RECURSIVE Descendants(_)
Descendants(n) ==
    LET kids == Range(document.nodes[n].children)
    IN  kids \cup UNION {Descendants(k) : k \in kids}

TextNodes == {n \in DOMAIN document.nodes : document.nodes[n].type = "TEXT"}

\* What the user can select on the current page: nothing, one node, or two
\* of the page's children in either order.
Selections ==
    LET top == Range(document.nodes[document.currentPage].children)
    IN  {<<>>} \cup {<<n>> : n \in Descendants(document.currentPage)}
        \cup {p \in top \X top : p[1] # p[2]}

\* At most one text node is faulty: loadFontAsync rejects for its font, or
\* setting its characters throws.
Faults == {NoFault} \cup {[kind |-> k, node |-> t] : k \in {"font", "write"}, t \in TextNodes}

SyncScopes == {"document", "page", "selection"}

\* Array.prototype.flatMap
RECURSIVE FlatMapChildren(_)
FlatMapChildren(list) ==
    IF list = <<>> THEN <<>>
    ELSE document.nodes[Head(list)].children \o FlatMapChildren(Tail(list))

getNodesForScope(scope) ==
    CASE scope = "document" -> FlatMapChildren(document.pages)
      [] scope = "page" -> document.nodes[document.currentPage].children
      [] OTHER -> IF Len(selection) > 0 THEN selection
                  ELSE document.nodes[document.currentPage].children

\* Map.prototype.set that keeps the value a key already has.
MapSetKeepsFirst(map, key, value) ==
    [k \in DOMAIN map \cup {key} |-> IF k \in DOMAIN map THEN map[k] ELSE value]

\* Map.prototype.set and Map.prototype.get (<<>> for undefined)
MapSet(map, key, value) ==
    [k \in DOMAIN map \cup {key} |-> IF k = key THEN value ELSE map[k]]

MapGet(map, key) == IF key \in DOMAIN map THEN <<map[key]>> ELSE <<>>

\* searchNode of findIndexedFrames: `todo` holds the nodes still to visit,
\* the children of a node before its later siblings.
RECURSIVE searchNodeFrames(_, _)
searchNodeFrames(todo, frames) ==
    IF todo = <<>> THEN frames
    ELSE LET node == Head(todo)
             index == parseFrameIndex(document.nodes[node].name)
         IN  searchNodeFrames(document.nodes[node].children \o Tail(todo),
                              IF index # <<>> THEN MapSet(frames, index[1], node)
                              ELSE frames)

findIndexedFrames(nodes) == searchNodeFrames(nodes, <<>>)

\* searchNode of findFieldLayers
RECURSIVE searchNodeFields(_, _)
searchNodeFields(todo, fields) ==
    IF todo = <<>> THEN fields
    ELSE LET n == Head(todo)
             fieldName == parseFieldName(document.nodes[n].name)
         IN  searchNodeFields(document.nodes[n].children \o Tail(todo),
                              IF fieldName # <<>> THEN MapSet(fields, fieldName[1], n)
                              ELSE fields)

findFieldLayers(node) == searchNodeFields(<<node>>, <<>>)

\* findTextInNode: the first TEXT node of the subtree, <<>> for null
RECURSIVE findTextIn(_)
findTextIn(todo) ==
    IF todo = <<>> THEN <<>>
    ELSE IF document.nodes[Head(todo)].type = "TEXT" THEN <<Head(todo)>>
    ELSE findTextIn(document.nodes[Head(todo)].children \o Tail(todo))

findTextInNode(node) == findTextIn(<<node>>)


(***************************************************************************)
(* applyDataLayerItems and the 'apply-datalayer' handler                   *)
(***************************************************************************)
\* The values a record can hold.
StringValue(text) == [kind |-> "string", text |-> text, n |-> 0]

NumberValue(n) == [kind |-> "number", text |-> <<>>, n |-> n]

NullValue == [kind |-> "null", text |-> <<>>, n |-> 0]

\* String(value ?? '')
StringOf(value) ==
    CASE value.kind \in {"null", "undefined"} -> <<>>
      [] value.kind = "number" -> <<NumStr(value.n)>>
      [] OTHER -> value.text

\* Object.entries(item) of the record at index i (from 0) of a message: a
\* record with a name and a price, or one whose price is null and that has a
\* field, operator, no layer of any document is named after.
BusRecord(i) ==
    <<[key |-> "name", value |-> StringValue(<<"Bus", NumStr(i)>>)],
      [key |-> "price", value |-> NumberValue(i)]>>

SparseRecord(i) ==
    <<[key |-> "price", value |-> NullValue],
      [key |-> "operator", value |-> StringValue(<<"Op", NumStr(i)>>)],
      [key |-> "name", value |-> StringValue(<<"Bus", NumStr(i)>>)]>>

ItemLists ==
    UNION {{[k \in 1..n |-> IF sparse[k] THEN SparseRecord(k - 1) ELSE BusRecord(k - 1)] :
                sparse \in [1..n -> BOOLEAN]} : n \in 0..MaxRecords}

\* The characters of the text nodes of a document nobody has written to.
InitialCharacters ==
    [n \in DOMAIN document.nodes |->
        IF document.nodes[n].type = "TEXT" THEN <<"Sample">> ELSE <<>>]

\* The state of a call of applyDataLayerItems: its counters, the document's
\* text, what it did so far, and the exception that left it, if any.
ApplyState(chars) ==
    [updated |-> 0, failed |-> 0, characters |-> chars, attempts |-> <<>>,
     threw |-> FALSE, message |-> <<>>]

\* One pass of a loop is noted with the counters it leaves.
Logged(st, i, key, frame, layer, textNode, outcome) ==
    [st EXCEPT !.attempts =
        Append(@, [item |-> i, key |-> key, frame |-> frame, layer |-> layer,
                   textNode |-> textNode, outcome |-> outcome,
                   updated |-> st.updated, failed |-> st.failed])]

\* lines 482-484: the text node is there; its font is loaded and its
\* characters are set.  A completion: threw, or the new characters.
WriteText(textNode, value, chars) ==
    IF fault.node = textNode /\ fault.kind = "font"
    THEN [threw |-> TRUE, message |-> <<"Font could not be loaded">>, characters |-> chars]
    ELSE IF fault.node = textNode /\ fault.kind = "write"
    THEN [threw |-> TRUE, message |-> <<"Cannot write to node">>, characters |-> chars]
    ELSE [threw |-> FALSE, message |-> <<>>,
          characters |-> [chars EXCEPT ![textNode] = StringOf(value)]]

\* A catch block that lets the exception go on.
FieldCatchRethrows(st, i, frame, layer, textNode, e, error) ==
    Logged([st EXCEPT !.threw = TRUE, !.message = error],
           i, e.key, frame, layer, textNode, "escaped")

\* lines 489-492: the catch block of one field
FieldCatch(st, i, frame, layer, textNode, e, error) ==
    Logged([st EXCEPT !.failed = @ + 1], i, e.key, frame, layer, textNode, "caught")

\* lines 479-492: the try statement of one field whose layer was found
ApplyField(st, i, frame, layer, e) ==
    LET textNode == IF document.nodes[layer].type = "TEXT" THEN <<layer>>
                    ELSE findTextInNode(layer)
    IN  IF textNode # <<>>
        THEN LET w == WriteText(textNode[1], e.value, st.characters)
             IN  IF w.threw
                 THEN FieldCatch(st, i, frame, layer, textNode[1], e, w.message)
                 ELSE Logged([st EXCEPT !.characters = w.characters, !.updated = @ + 1],
                             i, e.key, frame, layer, textNode[1], "written")
        ELSE Logged([st EXCEPT !.failed = @ + 1], i, e.key, frame, layer, 0, "noText")

\* An unmatched field that is counted as failed.
NoLayerCounted(st, i, frame, e) ==
    Logged([st EXCEPT !.failed = @ + 1], i, e.key, frame, 0, 0, "noLayer")

\* line 477: if (!layer) continue
NoLayer(st, i, frame, e) == Logged(st, i, e.key, frame, 0, 0, "noLayer")

\* lines 475-493: the loop over Object.entries(item)
RECURSIVE ApplyEntries(_, _, _, _, _)
ApplyEntries(st, i, frame, fieldLayers, entries) ==
    IF entries = <<>> \/ st.threw THEN st
    ELSE LET e == Head(entries)
             layer == MapGet(fieldLayers, e.key)
         IN  ApplyEntries(IF layer = <<>> THEN NoLayer(st, i, frame, e)
                          ELSE ApplyField(st, i, frame, layer[1], e),
                          i, frame, fieldLayers, Tail(entries))

\* A look-up that pairs every record with the frame of ordinal 0.
FirstFrame(indexedFrames, i) == MapGet(indexedFrames, 0)

\* line 465: indexedFrames.get(i)
FrameOfItem(indexedFrames, i) == MapGet(indexedFrames, i)

\* lines 463-494: the loop over the items, from index i on
RECURSIVE ApplyItems(_, _, _, _)
ApplyItems(st, items, i, indexedFrames) ==
    IF i >= Len(items) \/ st.threw THEN st
    ELSE LET frame == FrameOfItem(indexedFrames, i)
         IN  ApplyItems(IF frame = <<>> THEN Logged(st, i, "", 0, 0, 0, "noFrame")
                        ELSE ApplyEntries(st, i, frame[1], findFieldLayers(frame[1]),
                                          items[i + 1]),
                        items, i + 1, indexedFrames)

applyDataLayerItems(items, scope) ==
    LET nodes == getNodesForScope(scope)
        indexedFrames == findIndexedFrames(nodes)
    IN  ApplyItems(ApplyState(characters), items, 0, indexedFrames)

\* A message posted to the UI.
UiMessage(type, total, up, fl, message) ==
    [type |-> type, current |-> 0, total |-> total, updated |-> up, failed |-> fl,
     message |-> message]

\* The backend while the plugin is looked at on its own: no request is made.
ScrapeIdle ==
    /\ request = [url |-> [valid |-> FALSE, redbus |-> FALSE, fromCityId |-> FALSE,
                           toCityId |-> FALSE, date |-> "none"],
                  selectors |-> 0, extractionMode |-> "selectors",
                  fallbackOnError |-> TRUE, maxResults |-> 1]
    /\ pc = "off"
    /\ errors = <<>>
    /\ extractionMode = "undefined"
    /\ directOutcome = NoOutcome
    /\ directResult = Return(NoResult)
    /\ xhrResult = NoResult
    /\ results = <<>>
    /\ dataLayerItems = UndefinedItems
    /\ browser = "null"
    /\ page = "null"
    /\ closeCalled = {}
    /\ closeRejected = {}
    /\ pending = NoResponse
    /\ response = NoResponse
    /\ stages = <<>>

\* The plugin is open on a document and has handled no message yet.
InitApply ==
    /\ ScrapeIdle
    /\ UiIdle
    /\ FnIdle
    /\ document \in Documents
    /\ selection = <<>>
    /\ fault \in Faults
    /\ characters = InitialCharacters
    /\ applyPc = "idle"
    /\ applyMsg = NoMessage
    /\ applyOutcome = NoApplyOutcome
    /\ attempts = <<>>
    /\ uiMessages = <<>>

\* The user changes the selection.
SelectionChange ==
    /\ applyPc = "idle"
    /\ selection' \in Selections \ {selection}
    /\ UNCHANGED <<document, fault, characters, applyPc, applyMsg, applyOutcome,
                   attempts, uiMessages>>
    /\ UNCHANGED <<scrapeVars, uiVars, fnVars>>

\* lines 365-377: figma.ui.onmessage for an 'apply-datalayer' message
HandleApplyDataLayer ==
    /\ applyPc = "idle"
    /\ \E items \in ItemLists, scope \in SyncScopes :
        LET st == applyDataLayerItems(items, scope)
            progress == UiMessage("progress", Len(items), 0, 0,
                                  <<"Applying data to frames...">>)
        IN  /\ applyMsg' = [type |-> "apply-datalayer", items |-> items, scope |-> scope]
            /\ characters' = st.characters
            /\ attempts' = st.attempts
            /\ applyOutcome' = [threw |-> st.threw, message |-> st.message,
                                updated |-> st.updated, failed |-> st.failed]
            /\ uiMessages' =
                  IF st.threw
                  THEN <<progress,
                         UiMessage("error", 0, 0, 0,
                                   IF st.message # <<>> THEN st.message
                                   ELSE <<"Failed to apply data">>)>>
                  ELSE <<progress,
                         UiMessage("sync-complete", 0, st.updated, st.failed, <<>>)>>
    /\ applyPc' = "done"
    /\ UNCHANGED <<document, selection, fault>>
    /\ UNCHANGED <<scrapeVars, uiVars, fnVars>>

NextApply ==
    \/ SelectionChange
    \/ HandleApplyDataLayer

SpecApply == InitApply /\ [][NextApply]_vars


(***************************************************************************)
(* Properties of applyDataLayerItems                                       *)
(***************************************************************************)
ApplyDone == applyPc = "done"

\* A node and everything below it.
Subtree(n) == {n} \cup Descendants(n)

\* The nodes the scope of the handled message covers.
NodesInScope == UNION {Subtree(r) : r \in Range(getNodesForScope(applyMsg.scope))}

\* The frames in scope tagged with ordinal i.
FramesOfOrdinal(i) ==
    {f \in NodesInScope : parseFrameIndex(document.nodes[f].name) = <<i>>}

\* The passes in which a field layer was found and a write was attempted.
FieldAttempts ==
    {k \in DOMAIN attempts : attempts[k].outcome \in {"written", "caught", "noText", "escaped"}}

\* The counters before pass k.
UpdatedBefore(k) == IF k = 1 THEN 0 ELSE attempts[k - 1].updated

FailedBefore(k) == IF k = 1 THEN 0 ELSE attempts[k - 1].failed

\* The value of field `key` of record i of the handled message.
ValueOf(i, key) ==
    LET item == applyMsg.items[i + 1]
        at == CHOOSE j \in DOMAIN item : item[j].key = key
    IN  item[at].value

\* The passes that wrote to text node t.
WritesTo(t) ==
    {k \in DOMAIN attempts : attempts[k].outcome = "written" /\ attempts[k].textNode = t}

\* The handler finished without an exception and reported the counters.
ApplyCompleted ==
    /\ ~applyOutcome.threw
    /\ uiMessages[Len(uiMessages)] =
          UiMessage("sync-complete", 0, applyOutcome.updated, applyOutcome.failed, <<>>)

\* C8: applyDataLayerItems writes the fields of record i only into field
\* layers inside the frame in scope whose ordinal is i: every attempted
\* write of record i is on a layer named after the field, in the subtree of
\* a frame tagged @[i]; a text node changes only by such a write and then
\* holds the record's value.  A record with no frame of its ordinal and a
\* frame with no record of its ordinal cause no write and no error, and the
\* counters count the attempted writes only.
C8_RecordToItsFrame ==
    ApplyDone =>
        /\ ApplyCompleted
        /\ \A k \in FieldAttempts :
            LET a == attempts[k]
            IN  /\ a.item < Len(applyMsg.items)
                /\ a.frame \in FramesOfOrdinal(a.item)
                /\ a.layer \in Subtree(a.frame)
                /\ parseFieldName(document.nodes[a.layer].name) = <<a.key>>
                /\ a.outcome = "written" => a.textNode \in Subtree(a.layer)
        /\ \A t \in DOMAIN characters :
            IF WritesTo(t) = {} THEN characters[t] = InitialCharacters[t]
            ELSE LET k == CHOOSE w \in WritesTo(t) : \A v \in WritesTo(t) : v <= w
                 IN  characters[t] = StringOf(ValueOf(attempts[k].item, attempts[k].key))
        /\ \A i \in 0..(Len(applyMsg.items) - 1) :
            FramesOfOrdinal(i) = {} =>
                \A k \in DOMAIN attempts :
                    attempts[k].item = i =>
                        /\ attempts[k].outcome = "noFrame"
                        /\ attempts[k].updated = UpdatedBefore(k)
                        /\ attempts[k].failed = FailedBefore(k)
        /\ \A f \in NodesInScope :
            LET index == parseFrameIndex(document.nodes[f].name)
            IN  (index # <<>> /\ index[1] >= Len(applyMsg.items)) =>
                    \A k \in DOMAIN attempts : attempts[k].frame # f
        /\ applyOutcome.updated + applyOutcome.failed = Cardinality(FieldAttempts)

\* Two records and the frames of ordinals 0 and 2 on the page: frame 0 got
\* record 0, record 1 was dropped, and the frame of ordinal 2 is untouched.
C8_Witness ==
    /\ ApplyDone
    /\ document.nodes = SiblingCards(<<FrameTag(0)>>, <<FrameTag(2)>>)
    /\ applyMsg.scope = "page"
    /\ Len(applyMsg.items) = 2
    /\ applyOutcome.updated = 2
    /\ characters[6] = <<"Bus", "0">>
    /\ characters[9] = <<"Sample">>
    /\ \E k \in DOMAIN attempts : attempts[k].item = 1 /\ attempts[k].outcome = "noFrame"


\* The passes of record i, in order.
PassesOf(i) == SelectSeq(attempts, LAMBDA a : a.item = i)

\* The field names of record i, in the order of Object.entries.
KeysOf(i) == [j \in DOMAIN applyMsg.items[i + 1] |-> applyMsg.items[i + 1][j].key]

\* C9: when loading the font or setting the text fails for one field layer,
\* failed goes up by exactly one for that field and updated stays, no
\* exception leaves applyDataLayerItems, and the loops go on: every record
\* is visited, in order, and every field of every record that has a frame is
\* handled, in the order of its entries.
C9_FieldFailureIsLocal ==
    ApplyDone =>
        /\ ApplyCompleted
        /\ \A k \in DOMAIN attempts :
            /\ attempts[k].outcome # "escaped"
            /\ attempts[k].outcome = "caught" =>
                /\ attempts[k].textNode = fault.node
                /\ attempts[k].failed = FailedBefore(k) + 1
                /\ attempts[k].updated = UpdatedBefore(k)
            /\ (attempts[k].textNode = fault.node /\ fault.kind # "none") =>
                attempts[k].outcome = "caught"
        /\ \A k \in 1..(Len(attempts) - 1) : attempts[k].item <= attempts[k + 1].item
        /\ \A i \in 0..(Len(applyMsg.items) - 1) :
            LET passes == PassesOf(i)
            IN  \/ Len(passes) = 1 /\ passes[1].outcome = "noFrame"
                \/ [j \in DOMAIN passes |-> passes[j].key] = KeysOf(i)
        /\ fault.kind = "none" \/ characters[fault.node] = InitialCharacters[fault.node]

\* The font of the name layer of the first card cannot be loaded: that field
\* of record 0 fails, its price and both fields of record 1 are written.
C9_Witness ==
    /\ ApplyDone
    /\ fault.kind = "font"
    /\ Len(attempts) = 4
    /\ attempts[1].outcome = "caught"
    /\ attempts[1].item = 0
    /\ attempts[2].outcome = "written"
    /\ attempts[2].item = 0
    /\ attempts[4].outcome = "written"
    /\ attempts[4].item = 1
    /\ applyOutcome.failed = 1
    /\ applyOutcome.updated = 3

\* The passes in which the record's field had no layer in the paired frame.
UnmatchedFields == {k \in DOMAIN attempts : attempts[k].outcome = "noLayer"}

\* C10 (as stated): a record field with no matching field layer in its
\* paired frame is counted in the reported {updated, failed} totals, as a
\* failed write, rather than thrown, and the batch completes.
C10_UnmatchedFieldCounted ==
    ApplyDone =>
        /\ ApplyCompleted
        /\ \A k \in UnmatchedFields :
            attempts[k].updated + attempts[k].failed
                = UpdatedBefore(k) + FailedBefore(k) + 1

\* C10 (amended): a record field with no matching field layer in its paired
\* frame is skipped: it changes neither updated nor failed, nothing is
\* thrown and nothing is written; the batch completes and the totals
\* reported count the fields whose layer was found.
C10_UnmatchedFieldSkipped ==
    ApplyDone =>
        /\ ApplyCompleted
        /\ \A k \in UnmatchedFields :
            /\ attempts[k].updated = UpdatedBefore(k)
            /\ attempts[k].failed = FailedBefore(k)
            /\ attempts[k].frame \in FramesOfOrdinal(attempts[k].item)
            /\ \A n \in Subtree(attempts[k].frame) :
                parseFieldName(document.nodes[n].name) # <<attempts[k].key>>
        /\ applyOutcome.updated + applyOutcome.failed
              = Cardinality(DOMAIN attempts \ UnmatchedFields)
                  - Cardinality({k \in DOMAIN attempts : attempts[k].outcome = "noFrame"})

\* A record whose operator field has no layer: the field is skipped and the
\* name that follows it is written.
C10_Witness ==
    /\ ApplyDone
    /\ \E k \in UnmatchedFields :
        /\ attempts[k].key = "operator"
        /\ k < Len(attempts)
        /\ attempts[k + 1].item = attempts[k].item
        /\ attempts[k + 1].outcome = "written"
    /\ applyOutcome.updated + applyOutcome.failed < Len(attempts)

(***************************************************************************)
(* The plugin's UI: App, handleFetch, fetchWithRetry, addToHistory,        *)
(* handleApply, handleQuickSync (unnamed/part_000, lines 1254-1881)        *)
(***************************************************************************)
\* A batch holds at most this many URLs.
MaxUrls == 2

\* The user clicks at most this many buttons.
MaxClicks == 4
MaxFailures == 4
UiFailures == 1

\* fetchWithRetry(fetchFn, maxRetries = 3)
DefaultMaxRetries == 3

\* [newItem, ...history].slice(0, 20)
HistoryCap == 20

\* The URLs the user can enter: nothing, one that is not a RedBus URL, and
\* the search pages of two routes.
RouteUrl(route) == <<"https://www.", "redbus.in", "/bus-tickets/">> \o route

OtherUrl == <<"https://example.com/">>

PuneToGoa == <<"pune", "to", "goa">>
Routes == {PuneToGoa, <<"agra", "to", "delhi">>}

\* The url field, trimmed.
UiUrls == {<<>>, OtherUrl} \cup {RouteUrl(r) : r \in Routes}

\* handleBatchUrls keeps the lines that include 'redbus.in': the batches of
\* distinct route URLs, the empty one for single-URL mode.
UiBatches ==
    UNION {[1..n -> {RouteUrl(r) : r \in Routes}] : n \in 0..MaxUrls}

\* c => c.toUpperCase() on the first letter of a word (line 1366)
Capitalised(word) == <<"upper", word>>

\* lines 1362-1370: the words between 'bus-tickets/' and the first '?',
\* capitalised (the hyphens between them become arrows), or 'Unknown Route'
extractRouteName(urlStr) ==
    IF \E i \in 1..(Len(urlStr) - 1) : urlStr[i] = "/bus-tickets/" /\ urlStr[i + 1] # "?"
    THEN LET i == CHOOSE j \in 1..(Len(urlStr) - 1) :
                    /\ urlStr[j] = "/bus-tickets/" /\ urlStr[j + 1] # "?"
                    /\ \A m \in 1..(j - 1) : ~(urlStr[m] = "/bus-tickets/" /\ urlStr[m + 1] # "?")
             rest == SubSeq(urlStr, i + 1, Len(urlStr))
             stop == {j \in DOMAIN rest : rest[j] = "?"}
             last == IF stop = {} THEN Len(rest)
                     ELSE (CHOOSE j \in stop : \A m \in stop : j <= m) - 1
         IN  [j \in 1..last |-> Capitalised(rest[j])]
    ELSE <<"Unknown Route">>

\* A HistoryItem; id is Date.now().toString()
HistoryItem(fetchUrl, busCount, time) ==
    [id |-> time, url |-> fetchUrl, routeName |-> extractRouteName(fetchUrl),
     busCount |-> busCount, timestamp |-> time]

\* The history after n additions made at the times 1..n, newest first.
StoredHistory(n) ==
    [j \in 1..n |-> HistoryItem(RouteUrl(PuneToGoa), 1, n + 1 - j)]

\* The lengths of the history the UI starts with.
StoredHistoryLengths == {0, HistoryCap - 1, HistoryCap}

NoCache == [set |-> FALSE, url |-> <<>>, data |-> <<>>, timestamp |-> 0]

\* A bus of a response: the URL it was fetched for and its position.
Bus(fetchUrl, j) == [from |-> fetchUrl, n |-> j]

\* The React state of App after the first render.
UiState(url, urls, history) ==
    [open |-> TRUE, url |-> url, urls |-> urls, loading |-> FALSE, error |-> <<>>,
     status |-> <<>>, retryCount |-> 0, serverOnline |-> "null", busData |-> <<>>,
     cachedData |-> NoCache, history |-> history]

\* What POST /api/scrape can answer for a URL: success with no bus or one
\* bus in dataLayerItems, or success false with no dataLayerItems.
BackendResponses(fetchUrl) ==
    {[success |-> TRUE, dataLayerItems |-> [j \in 1..n |-> Bus(fetchUrl, j)]] : n \in 0..1}
    \cup {[success |-> FALSE, dataLayerItems |-> <<>>]}

\* What fetchFn can throw: fetch rejects, or the status is not ok.
FetchErrors ==
    {[name |-> "TypeError", message |-> <<"Failed to fetch">>],
     [name |-> "Error", message |-> <<"HTTP", "500">>]}

NoFetchError == [name |-> "", message |-> <<>>]

\* A call of handleFetch (or of handleQuickSync, which awaits handleFetch):
\* the state its closure holds, the URL and the attempt it is at, and the
\* error fetchWithRetry rejected with.
Task(kind, taskPc, urlsToFetch, req) ==
    [kind |-> kind, pc |-> taskPc, urlsToFetch |-> urlsToFetch,
     busData |-> ui.busData, cachedData |-> ui.cachedData, history |-> ui.history,
     k |-> 1, i |-> 0, req |-> req, allBuses |-> <<>>, rejected |-> NoFetchError]

\* A call of fetchFn for URL number k of task t, attempt i (from 0).
Request(t, k, i) ==
    [task |-> t, k |-> k, i |-> i, state |-> "pending", error |-> NoFetchError,
     issued |-> now]

\* lines 1524-1536: the list addToHistory sets, from the list it sees
addToHistory(history, fetchUrl, busCount, time) ==
    Slice(<<HistoryItem(fetchUrl, busCount, time)>> \o history, HistoryCap)

\* lines 1486-1488: after `await handleFetch()`, handleQuickSync arms a timer for
\* handleApply when the busData of its closure is not empty.
AfterFetch(task) ==
    IF task.kind = "quickSync" /\ Len(task.busData) > 0
    THEN Append(timers, [busData |-> task.busData, cachedData |-> task.cachedData])
    ELSE timers

\* Fetch Data and Sync Now are enabled (lines 1780, 1796).
FetchEnabled == ui.open /\ ~(ui.loading \/ ui.serverOnline = "false")

\* lines 1387-1406: handleFetch up to its first await
StartFetch(kind) ==
    LET urlsToFetch == IF Len(ui.urls) > 0 THEN ui.urls ELSE <<ui.url>>
        invalid == {j \in DOMAIN urlsToFetch : ~Includes(urlsToFetch[j], "redbus.in")}
        t == Len(tasks) + 1
    IN  IF urlsToFetch[1] = <<>>
        THEN /\ ui' = [ui EXCEPT !.error = <<"Please enter a RedBus URL">>]
             /\ tasks' = Append(tasks, Task(kind, "done", urlsToFetch, 0))
             /\ timers' = AfterFetch(Task(kind, "done", urlsToFetch, 0))
             /\ UNCHANGED requests
        ELSE IF invalid # {}
        THEN /\ ui' = [ui EXCEPT !.error =
                        <<"Invalid URL:">> \o
                        urlsToFetch[CHOOSE j \in invalid : \A m \in invalid : j <= m]]
             /\ tasks' = Append(tasks, Task(kind, "done", urlsToFetch, 0))
             /\ timers' = AfterFetch(Task(kind, "done", urlsToFetch, 0))
             /\ UNCHANGED requests
        ELSE /\ ui' = [ui EXCEPT !.loading = TRUE, !.error = <<>>, !.retryCount = 0,
                                 !.status = <<"Fetching bus data...">>]
             /\ requests' = Append(requests, Request(t, 1, 0))
             /\ tasks' = Append(tasks, Task(kind, "await", urlsToFetch, Len(requests) + 1))
             /\ UNCHANGED timers

\* The user clicks Fetch Data.
ClickFetch ==
    /\ FetchEnabled
    /\ clicksLeft > 0
    /\ clicksLeft' = clicksLeft - 1
    /\ StartFetch("fetch")
    /\ UNCHANGED <<posted, now, failuresLeft>>
    /\ UNCHANGED <<scrapeVars, applyVars, fnVars>>

\* The user clicks Sync Now (handleQuickSync, lines 1484-1490).
ClickQuickSync ==
    /\ FetchEnabled
    /\ clicksLeft > 0
    /\ clicksLeft' = clicksLeft - 1
    /\ StartFetch("quickSync")
    /\ UNCHANGED <<posted, now, failuresLeft>>
    /\ UNCHANGED <<scrapeVars, applyVars, fnVars>>

\* lines 1431-1446: the loop over the URLs is over
FinishFetch(task, allBuses, time) ==
    IF Len(allBuses) > 0
    THEN [ui EXCEPT !.busData = allBuses,
                    !.cachedData = [set |-> TRUE, url |-> task.urlsToFetch[1],
                                    data |-> allBuses, timestamp |-> time],
                    !.history = addToHistory(task.history, task.urlsToFetch[1],
                                             Len(allBuses), time),
                    !.status = <<"Found", NumStr(Len(allBuses)), "buses">>,
                    !.loading = FALSE]
    ELSE [ui EXCEPT !.error = <<"No buses found. Try a different route or date.">>,
                    !.loading = FALSE, !.status = <<>>]

\* lines 1411-1429: fetchFn returns for the pending request of task t
ResponseArrives ==
    \E t \in DOMAIN tasks :
        /\ tasks[t].pc = "await"
        /\ \E res \in BackendResponses(tasks[t].urlsToFetch[tasks[t].k]) :
            LET task == tasks[t]
                allBuses == IF res.success /\ Len(res.dataLayerItems) > 0
                            THEN task.allBuses \o res.dataLayerItems
                            ELSE task.allBuses
                answered == [requests EXCEPT ![task.req].state = "ok"]
            IN  IF task.k < Len(task.urlsToFetch)
                THEN /\ requests' = Append(answered, [Request(t, task.k + 1, 0)
                                                        EXCEPT !.issued = now + 1])
                     /\ tasks' = [tasks EXCEPT ![t].k = task.k + 1, ![t].i = 0,
                                               ![t].allBuses = allBuses,
                                               ![t].req = Len(requests) + 1]
                     /\ UNCHANGED <<ui, timers>>
                ELSE /\ requests' = answered
                     /\ tasks' = [tasks EXCEPT ![t].pc = "done", ![t].allBuses = allBuses]
                     /\ ui' = FinishFetch(task, allBuses, now + 1)
                     /\ timers' = AfterFetch(task)
    /\ now' = now + 1
    /\ UNCHANGED <<posted, clicksLeft, failuresLeft>>
    /\ UNCHANGED <<scrapeVars, applyVars, fnVars>>

\* A catch block that also empties the history.
FetchCatchDropsHistory(err) ==
    [ui EXCEPT !.error = <<"Error:">> \o err.message, !.loading = FALSE,
               !.status = <<>>, !.history = <<>>]

\* lines 1447-1456: the catch block of handleFetch
FetchCatch(err) ==
    IF Includes(err.message, "Failed to fetch") \/ err.name = "TypeError"
    THEN [ui EXCEPT !.serverOnline = "false",
                    !.error = <<"Server not running. Start the RedBus Data Server first.">>,
                    !.loading = FALSE, !.status = <<>>]
    ELSE [ui EXCEPT !.error = <<"Error:">> \o err.message,
                    !.loading = FALSE, !.status = <<>>]

\* A loop that takes one attempt more before it gives up.
LastAttemptLate(i, maxRetries) == i = maxRetries

\* Whether attempt i was the last one (line 1378).
LastAttempt(i, maxRetries) == i = maxRetries - 1

\* A loop over the URLs that goes on with the next URL when one has failed.
RetriesExhaustedContinues(t, err) ==
    IF tasks[t].k < Len(tasks[t].urlsToFetch)
    THEN [tasks EXCEPT ![t].pc = "backoff", ![t].k = tasks[t].k + 1, ![t].i = -1]
    ELSE [tasks EXCEPT ![t].pc = "done", ![t].rejected = err]

\* lines 1378 and 1447: fetchWithRetry rethrows err inside the try block of
\* handleFetch, which leaves the loop over the URLs
RetriesExhausted(t, err) == [tasks EXCEPT ![t].pc = "done", ![t].rejected = err]

\* lines 1377-1381: fetchFn throws for the pending request of task t
RequestFails ==
    \E t \in DOMAIN tasks :
        /\ tasks[t].pc = "await"
        /\ failuresLeft > 0
        /\ failuresLeft' = failuresLeft - 1
        /\ \E err \in FetchErrors :
            LET task == tasks[t]
            IN  /\ requests' = [requests EXCEPT ![task.req].state = "failed",
                                                ![task.req].error = err]
                /\ IF LastAttempt(task.i, DefaultMaxRetries)
                   THEN /\ tasks' = RetriesExhausted(t, err)
                        /\ ui' = FetchCatch(err)
                        /\ timers' = AfterFetch(task)
                   ELSE /\ tasks' = [tasks EXCEPT ![t].pc = "backoff"]
                        /\ ui' = [ui EXCEPT !.retryCount = task.i + 1,
                                            !.status = <<"Retrying...", NumStr(task.i + 1),
                                                         "/", NumStr(DefaultMaxRetries)>>]
                        /\ UNCHANGED timers
    /\ now' = now + 1
    /\ UNCHANGED <<posted, clicksLeft>>
    /\ UNCHANGED <<scrapeVars, applyVars, fnVars>>

\* line 1381: the backoff delay of task t is over; the loop calls fetchFn again
BackoffElapsed ==
    \E t \in DOMAIN tasks :
        /\ tasks[t].pc = "backoff"
        /\ requests' = Append(requests, [Request(t, tasks[t].k, tasks[t].i + 1)
                                            EXCEPT !.issued = now + 1])
        /\ tasks' = [tasks EXCEPT ![t].pc = "await", ![t].i = tasks[t].i + 1,
                                  ![t].req = Len(requests) + 1]
    /\ now' = now + 1
    /\ UNCHANGED <<ui, timers, posted, clicksLeft, failuresLeft>>
    /\ UNCHANGED <<scrapeVars, applyVars, fnVars>>

\* lines 1460-1481: handleApply with the busData and cachedData of the
\* render whose closure calls it
handleApply(busData, cachedData) ==
    IF Len(busData) = 0 /\ ~cachedData.set
    THEN /\ ui' = [ui EXCEPT !.error = <<"No data to apply. Fetch data first.">>]
         /\ UNCHANGED posted
    ELSE /\ ui' = [ui EXCEPT !.busData = IF Len(busData) = 0 THEN cachedData.data ELSE @,
                             !.loading = TRUE,
                             !.status = <<"Applying to Figma...">>]
         /\ posted' = Append(posted, [type |-> "apply-datalayer", items |-> busData,
                                      replied |-> FALSE])

\* The user clicks Apply, enabled at line 1788.
ClickApply ==
    /\ ui.open
    /\ ~(ui.loading \/ Len(ui.busData) = 0)
    /\ clicksLeft > 0
    /\ clicksLeft' = clicksLeft - 1
    /\ handleApply(ui.busData, ui.cachedData)
    /\ UNCHANGED <<tasks, requests, timers, now, failuresLeft>>
    /\ UNCHANGED <<scrapeVars, applyVars, fnVars>>

\* line 1488: the 100 ms timer of handleQuickSync fires
TimerFires ==
    /\ Len(timers) > 0
    /\ handleApply(Head(timers).busData, Head(timers).cachedData)
    /\ timers' = Tail(timers)
    /\ UNCHANGED <<tasks, requests, now, clicksLeft, failuresLeft>>
    /\ UNCHANGED <<scrapeVars, applyVars, fnVars>>

\* lines 1298-1310: the plugin answers an apply-datalayer message with
\* sync-complete or with error
PluginReply ==
    \E p \in DOMAIN posted :
        /\ ~posted[p].replied
        /\ \A q \in 1..(p - 1) : posted[q].replied
        /\ posted' = [posted EXCEPT ![p].replied = TRUE]
        /\ \E type \in {"sync-complete", "error"} :
            ui' = [ui EXCEPT !.loading = FALSE, !.status = <<>>,
                             !.error = IF type = "error" THEN <<"Failed to apply data">> ELSE @]
    /\ UNCHANGED <<tasks, requests, timers, now, clicksLeft, failuresLeft>>
    /\ UNCHANGED <<scrapeVars, applyVars, fnVars>>

\* The plugin window after its first render: what the user typed in the URL
\* box or in the batch box, the history of the fetches made so far.
UiStarted(fetchUrls, batches, lengths, clicks, failures) ==
    /\ \E fetchUrl \in fetchUrls, batch \in batches, n \in lengths :
        /\ ui = UiState(fetchUrl, batch, StoredHistory(n))
        /\ now = n
    /\ tasks = <<>>
    /\ requests = <<>>
    /\ timers = <<>>
    /\ posted = <<>>
    /\ clicksLeft = clicks
    /\ failuresLeft = failures
    /\ ScrapeIdle
    /\ ApplyIdle
    /\ FnIdle

\* One click on Fetch Data or Sync Now, every URL and batch, a faulty network.
InitFetch == UiStarted(UiUrls, UiBatches, StoredHistoryLengths, 1, MaxFailures)

NextFetch ==
    \/ ClickFetch
    \/ ClickQuickSync
    \/ ResponseArrives
    \/ RequestFails
    \/ BackoffElapsed

SpecFetch == InitFetch /\ [][NextFetch]_vars

\* Several clicks on one valid URL.
InitUI == UiStarted({RouteUrl(PuneToGoa)}, {<<>>}, {HistoryCap - 1}, MaxClicks, UiFailures)

NextUI ==
    \/ ClickFetch
    \/ ClickQuickSync
    \/ ClickApply
    \/ ResponseArrives
    \/ RequestFails
    \/ BackoffElapsed
    \/ TimerFires
    \/ PluginReply

SpecUI == InitUI /\ [][NextUI]_vars

\* ---- fetchWithRetry and handleFetch: properties ----

\* The calls of fetchFn that task t made for its URL number k.
AttemptsOf(t, k) == {r \in DOMAIN requests : requests[r].task = t /\ requests[r].k = k}

\* The pairs of a task and of a URL of its list.
FetchCalls == UNION {{<<t, k>> : k \in DOMAIN tasks[t].urlsToFetch} : t \in DOMAIN tasks}

\* C11: fetchWithRetry calls the request at most maxRetries (3) times; after
\* the first attempt that succeeds it makes no further attempt; when it
\* rejects, every one of the maxRetries attempts has failed and the error it
\* rejects with is the error of the last attempt.
C11_RetryBounded ==
    /\ \A c \in FetchCalls :
        /\ Cardinality(AttemptsOf(c[1], c[2])) <= DefaultMaxRetries
        /\ \A r, q \in AttemptsOf(c[1], c[2]) :
            /\ (r # q => requests[r].i # requests[q].i)
            /\ (requests[r].state = "ok" => requests[q].i <= requests[r].i)
            /\ (requests[q].i < requests[r].i => requests[q].state = "failed")
    /\ \A t \in DOMAIN tasks :
        tasks[t].rejected # NoFetchError =>
            /\ Cardinality(AttemptsOf(t, tasks[t].k)) = DefaultMaxRetries
            /\ \A r \in AttemptsOf(t, tasks[t].k) :
                /\ requests[r].state = "failed"
                /\ (requests[r].i = DefaultMaxRetries - 1 =>
                        requests[r].error = tasks[t].rejected)

\* fetchWithRetry has rejected with the error of its third attempt, which is
\* not the error of its first attempt, and another call has returned the
\* result of a second attempt.
C11_Witness ==
    \E t \in DOMAIN tasks :
        /\ tasks[t].rejected # NoFetchError
        /\ \E r \in AttemptsOf(t, tasks[t].k) :
            /\ requests[r].i = 0
            /\ requests[r].error # tasks[t].rejected
        /\ \E k \in 1..(tasks[t].k - 1) :
            \E r \in AttemptsOf(t, k) : requests[r].state = "ok" /\ requests[r].i = 1

\* C12: the requests of one handleFetch call are issued one after the other
\* in the order of the URL list: a request is issued only when every earlier
\* request of the call is over, a URL is requested only after the URL before
\* it has been answered, and once fetchWithRetry has rejected for URL k no
\* request exists for a later URL.
C12_BatchSequential ==
    \A t \in DOMAIN tasks :
        LET mine == {r \in DOMAIN requests : requests[r].task = t}
        IN  /\ Cardinality({r \in mine : requests[r].state = "pending"}) <= 1
            /\ \A r, q \in mine :
                r < q =>
                    /\ requests[r].state # "pending"
                    /\ requests[r].k <= requests[q].k
            /\ \A q \in mine :
                \A k \in 1..(requests[q].k - 1) :
                    \E r \in AttemptsOf(t, k) : r < q /\ requests[r].state = "ok"
            /\ (tasks[t].rejected # NoFetchError =>
                    \A q \in mine : requests[q].k <= tasks[t].k)
            /\ (tasks[t].rejected # NoFetchError =>
                    \A r \in AttemptsOf(t, tasks[t].k) : requests[r].state = "failed")

\* A batch of two URLs: the first URL was answered at its second attempt
\* and the request for the second URL is in flight.
C12_Witness ==
    \E t \in DOMAIN tasks :
        /\ Len(ui.urls) = MaxUrls
        /\ tasks[t].urlsToFetch = ui.urls
        /\ tasks[t].pc = "await"
        /\ tasks[t].k = 2
        /\ Cardinality(AttemptsOf(t, 1)) = 2
        /\ requests[tasks[t].req].state = "pending"

\* ---- the App window: properties ----

\* The handleFetch calls that have started their requests and are not over.
OutstandingFetches == {t \in DOMAIN tasks : tasks[t].pc \in {"await", "backoff"}}

\* C13: at most one backend fetch is outstanding at any time, and while one
\* is outstanding loading is true and the controls that start a fetch
\* (Fetch Data, Sync Now) are disabled.
C13_OneFetchOutstanding ==
    /\ Cardinality(OutstandingFetches) <= 1
    /\ (OutstandingFetches # {} => ui.loading /\ ~FetchEnabled)

\* The entries of a history list are ordered newest first.
NewestFirst(history) ==
    \A i, j \in DOMAIN history : i < j => history[i].timestamp > history[j].timestamp

\* C14: whenever addToHistory changes the history list, the new list holds
\* at most 20 entries, ordered newest first, and when the list held 20
\* entries before, the new list is the new entry followed by the old list
\* without its last (oldest) entry.
C14_HistoryEvictsOldest ==
    [][ui'.history # ui.history =>
        /\ Len(ui'.history) <= HistoryCap
        /\ NewestFirst(ui'.history)
        /\ (Len(ui.history) = HistoryCap =>
                Tail(ui'.history) = SubSeq(ui.history, 1, HistoryCap - 1))]_vars

(***************************************************************************)
(* The normalizers of provider records (direct-api.ts, the XHR extractor   *)
(* of part_005, the plugin's direct client in messages.ts) and the other   *)
(* pure functions, each called once on an input.                           *)
(***************************************************************************)
\* The times of day the records carry: every hour, five minutes of the hour.
Hours == 0..23

Minutes == {0, 15, 30, 45, 59}

MinutesPerDay == 1440       \* 24 * 60

\* The text 'HH:MM' as its four digits.
TimeText(h, m) == <<h \div 10, h % 10, m \div 10, m % 10>>

TimeTexts == {TimeText(h, m) : h \in Hours, m \in Minutes}

\* The result of arithmetic on undefined.
NaN == "NaN"

\* direct-api.ts:343-353: the first \d{2}:\d{2} of the text, as numbers
parseDateTime(dateStr) ==
    IF dateStr = <<>>
    THEN [hours |-> 0, minutes |-> 0]
    ELSE [hours |-> 10 * dateStr[1] + dateStr[2], minutes |-> 10 * dateStr[3] + dateStr[4]]

\* An overnight test that never adds a day.
OvernightNever(arrMins, depMins) == FALSE

\* `if (arrMins < depMins)`: the journey ends on the next day
Overnight(arrMins, depMins) == arrMins < depMins

\* direct-api.ts:358-371
calculateDurationMinutes(dep, arr) ==
    LET depMins == dep.hours * 60 + dep.minutes
        arrMins == arr.hours * 60 + arr.minutes
    IN  IF Overnight(arrMins, depMins) THEN arrMins + 24 * 60 - depMins
        ELSE arrMins - depMins

\* part_005:150-151: time.split(':').map(Number) of a text 'HH:MM', as
\* hours * 60 + minutes
SplitMinutes(time) == (10 * time[1] + time[2]) * 60 + 10 * time[3] + time[4]

\* part_005:148-165; the empty text splits into [''], whose second element
\* is undefined: the sum is NaN, a comparison with NaN is false and a
\* difference with NaN is NaN
calculateDuration(depTime, arrTime) ==
    IF depTime = <<>> \/ arrTime = <<>> THEN NaN
    ELSE LET depMins == SplitMinutes(depTime)
             arrMins == SplitMinutes(arrTime)
         IN  IF Overnight(arrMins, depMins) THEN arrMins + 24 * 60 - depMins
             ELSE arrMins - depMins

\* messages.ts:1009-1016
parseTime(dateStr) ==
    IF dateStr = <<>>
    THEN [hours |-> 0, minutes |-> 0]
    ELSE [hours |-> 10 * dateStr[1] + dateStr[2], minutes |-> 10 * dateStr[3] + dateStr[4]]

\* messages.ts:1018-1023
PluginCalculateDuration(dep, arr) ==
    LET depMins == dep.hours * 60 + dep.minutes
        arrMins == arr.hours * 60 + arr.minutes
    IN  IF Overnight(arrMins, depMins) THEN arrMins + 24 * 60 - depMins
        ELSE arrMins - depMins

\* The records whose duration is computed from two times 'HH:MM'.
TimedRecords == {[departureTime |-> d, arrivalTime |-> a] : d \in TimeTexts, a \in TimeTexts}

DurationFunctions == {"calculateDurationMinutes", "calculateDuration", "PluginCalculateDuration"}

DurationInputs == {[fn |-> f, arg |-> r] : f \in DurationFunctions, r \in TimedRecords}

\* direct-api.ts:217-221 with no journeyDurationMin in the record
CallCalculateDurationMinutes ==
    /\ fnName = "none"
    /\ fnInput.fn = "calculateDurationMinutes"
    /\ fnName' = fnInput.fn
    /\ fnOutput' = calculateDurationMinutes(parseDateTime(fnInput.arg.departureTime),
                                            parseDateTime(fnInput.arg.arrivalTime))
    /\ UNCHANGED fnInput
    /\ UNCHANGED <<scrapeVars, applyVars, uiVars>>

\* part_005:100-103 with no duration and no durationInMins in the record
CallCalculateDuration ==
    /\ fnName = "none"
    /\ fnInput.fn = "calculateDuration"
    /\ fnName' = fnInput.fn
    /\ fnOutput' = calculateDuration(fnInput.arg.departureTime, fnInput.arg.arrivalTime)
    /\ UNCHANGED fnInput
    /\ UNCHANGED <<scrapeVars, applyVars, uiVars>>

\* messages.ts:971-973
CallPluginCalculateDuration ==
    /\ fnName = "none"
    /\ fnInput.fn = "PluginCalculateDuration"
    /\ fnName' = fnInput.fn
    /\ fnOutput' = PluginCalculateDuration(parseTime(fnInput.arg.departureTime),
                                           parseTime(fnInput.arg.arrivalTime))
    /\ UNCHANGED fnInput
    /\ UNCHANGED <<scrapeVars, applyVars, uiVars>>

InitDuration ==
    /\ fnName = "none"
    /\ fnInput \in DurationInputs
    /\ fnOutput = <<>>
    /\ ScrapeIdle
    /\ ApplyIdle
    /\ UiIdle

NextDuration ==
    \/ CallCalculateDurationMinutes
    \/ CallCalculateDuration
    \/ CallPluginCalculateDuration

SpecDuration == InitDuration /\ [][NextDuration]_vars

\* The minutes after midnight of a text 'HH:MM'.
MinuteOfDay(time) == (10 * time[1] + time[2]) * 60 + 10 * time[3] + time[4]

\* C15: for departure and arrival times HH:MM, each of the three normalizers
\* computes a duration that is not negative and equals
\* (arrival - departure) mod 1440 minutes.
C15_DurationModuloDay ==
    fnName \in DurationFunctions =>
        /\ fnOutput \in 0..(MinutesPerDay - 1)
        /\ fnOutput = (MinuteOfDay(fnInput.arg.arrivalTime)
                        - MinuteOfDay(fnInput.arg.departureTime)) % MinutesPerDay

\* The journey of the example: departure 22:30, arrival 05:45, 435 minutes.
C15_Witness ==
    /\ fnName \in DurationFunctions
    /\ fnInput.arg.departureTime = TimeText(22, 30)
    /\ fnInput.arg.arrivalTime = TimeText(5, 45)
    /\ fnOutput = 435

\* The least element of a set of numbers that is not empty.
Least(S) == CHOOSE x \in S : \A y \in S : x <= y

\* The values of JavaScript a raw record can hold in a field.
JsUndefined == [kind |-> "undefined", val |-> <<>>]

JsNumber(n) == [kind |-> "number", val |-> n]

JsNaN == [kind |-> "NaN", val |-> <<>>]

JsString(text) == [kind |-> "string", val |-> text]

JsArray(elems) == [kind |-> "array", val |-> elems]

\* Whether `v || w` evaluates to v.
Truthy(v) ==
    CASE v.kind \in {"undefined", "NaN"} -> FALSE
      [] v.kind = "number" -> v.val # 0
      [] v.kind = "string" -> v.val # <<>>
      [] OTHER -> TRUE

\* v || w
Or(v, w) == IF Truthy(v) THEN v ELSE w

\* A completion that is a throw of a TypeError.
TypeError(message) == [threw |-> TRUE, error |-> message, value |-> <<>>]

Returns(v) == [threw |-> FALSE, error |-> <<>>, value |-> v]

\* What a raw record of the provider can hold: a field is missing, has the
\* type the normalizer expects, or has another type; boarding points can
\* come under the alternate name bpList, the fare in fareList or in fare.
RawTimes == {JsUndefined, JsString(TimeText(22, 30)), JsNumber(1350)}

RawBuses ==
    [departureTime : RawTimes,
     arrivalTime : {JsUndefined, JsString(TimeText(5, 45))},
     duration : {JsUndefined, JsNumber(435)},
     boardingPoints : {JsUndefined, JsArray(<<JsString(<<"Pune">>)>>), JsString(<<"Pune">>)},
     bpList : {JsUndefined, JsArray(<<JsString(<<"Swargate">>)>>)},
     busType : {JsUndefined, JsString(<<"A/C", "sleeper">>), JsNumber(2)},
     fareList : {JsUndefined, JsArray(<<JsNumber(450)>>)},
     fare : {JsUndefined, JsNumber(500), JsString(<<"500">>)}]

\* direct-api.ts:343-353 on any value: a value that is not a string has no
\* match method
ParseDateTimeOf(v) ==
    IF ~Truthy(v) THEN Returns([hours |-> 0, minutes |-> 0])
    ELSE IF v.kind = "string" THEN Returns(parseDateTime(v.val))
    ELSE TypeError(<<"dateStr.match is not a function">>)

\* direct-api.ts:225-228: (a || b || []).slice(0, 5).map(...).filter(Boolean)
\* on arrays of strings; a string has slice but no map, a number has no slice
DirectPoints(points, alternate) ==
    LET list == Or(Or(points, alternate), JsArray(<<>>))
    IN  IF list.kind = "array"
        THEN Returns([j \in DOMAIN Slice(list.val, 5) |-> list.val[j].val])
        ELSE IF list.kind = "string"
        THEN TypeError(<<"(intermediate value).slice(...).map is not a function">>)
        ELSE TypeError(<<"(intermediate value).slice is not a function">>)

\* direct-api.ts:246-247
DirectPrice(bus) ==
    IF bus.fareList.kind = "array" /\ Len(bus.fareList.val) > 0
       /\ bus.fareList.val[1].kind = "number"
    THEN bus.fareList.val[1]
    ELSE Or(bus.fare, JsNumber(0))

\* direct-api.ts:215-338, the fields named above (the record holds the
\* duration as journeyDurationMin)
transformBusData(bus) ==
    LET depTime == ParseDateTimeOf(bus.departureTime)
        arrTime == ParseDateTimeOf(bus.arrivalTime)
        boardingPoints == DirectPoints(bus.boardingPoints, bus.bpList)
        busType == Or(bus.busType, JsString(<<>>))
    IN  IF depTime.threw THEN depTime
        ELSE IF arrTime.threw THEN arrTime
        ELSE IF boardingPoints.threw THEN boardingPoints
        ELSE IF busType.kind # "string"
        THEN TypeError(<<"busType.toLowerCase is not a function">>)
        ELSE Returns([durationMinutes |->
                          Or(bus.duration,
                             JsNumber(calculateDurationMinutes(depTime.value, arrTime.value))),
                      price |-> DirectPrice(bus),
                      boardingPoints |-> boardingPoints.value,
                      isSleeper |-> Includes(busType.val, "sleeper")])

\* part_005:148-165 on any values: split of a value that is not a string
\* throws inside the try block, which returns 0
CalculateDurationOf(depTime, arrTime) ==
    IF depTime.kind # "string" \/ arrTime.kind # "string" THEN JsNumber(0)
    ELSE IF depTime.val = <<>> \/ arrTime.val = <<>> THEN JsNaN
    ELSE JsNumber(calculateDuration(depTime.val, arrTime.val))

\* part_005:199-208
extractPoints(points) ==
    IF ~Truthy(points) \/ points.kind # "array" THEN <<>>
    ELSE Slice([j \in DOMAIN points.val |-> points.val[j].val], 5)

\* part_005:98-138 for one record of the list
TransformRedBus(bus) ==
    LET depTime == Or(bus.departureTime, JsString(<<>>))
        arrTime == Or(bus.arrivalTime, JsString(<<>>))
    IN  IF Truthy(bus.busType) /\ bus.busType.kind # "string"
        THEN TypeError(<<"bus.busType?.toLowerCase is not a function">>)
        ELSE Returns([durationMinutes |->
                          Or(bus.duration, CalculateDurationOf(depTime, arrTime)),
                      price |-> Or(bus.fare, JsNumber(0)),
                      boardingPoints |-> extractPoints(Or(bus.boardingPoints, bus.bpList)),
                      isSleeper |-> IF Truthy(bus.busType)
                                    THEN Includes(bus.busType.val, "sleeper") ELSE FALSE])

\* part_005:77-91: the nesting paths of a payload, in the order of the
\* if / else-if chain; the fifth test is Array.isArray(data)
PayloadPaths ==
    <<"inventoryItems", "busListData.busList", "busList", "result.inventoryItems",
      "Array.isArray(data)", "data.busList", "data.inventoryItems">>

ArrayPath == 5

\* The record found under path k: its fare tells where it comes from.
PathBus(k) ==
    [departureTime |-> JsString(TimeText(22, 30)), arrivalTime |-> JsString(TimeText(5, 45)),
     duration |-> JsUndefined, boardingPoints |-> JsUndefined, bpList |-> JsUndefined,
     busType |-> JsUndefined, fareList |-> JsUndefined, fare |-> JsNumber(k)]

\* A payload is an array of records, or an object in which each path is
\* absent, holds an empty array or holds an array of one record.
ArrayPayload(list) ==
    [kind |-> "array", list |-> list, paths |-> [k \in DOMAIN PayloadPaths |-> "absent"]]

ObjectPayloads ==
    {[kind |-> "object", list |-> <<>>, paths |-> paths] :
        paths \in {f \in [DOMAIN PayloadPaths -> {"absent", "empty", "full"}] :
                        f[ArrayPath] = "absent"}}

Payloads == ObjectPayloads \cup {ArrayPayload(<<>>), ArrayPayload(<<PathBus(ArrayPath)>>)}

\* data?.a?.b for path k
PathValue(data, k) ==
    IF k = ArrayPath
    THEN IF data.kind = "array" THEN JsArray(data.list) ELSE JsUndefined
    ELSE CASE data.paths[k] = "absent" -> JsUndefined
           [] data.paths[k] = "empty" -> JsArray(<<>>)
           [] OTHER -> JsArray(<<PathBus(k)>>)

\* The condition of branch k of the chain: `if (data?.path)`, or
\* Array.isArray(data)
PathTaken(data, k) ==
    IF k = ArrayPath THEN data.kind = "array" ELSE Truthy(PathValue(data, k))

\* part_005:74-91: let busList = []; the first branch whose condition holds
\* assigns it
SelectBusList(data) ==
    LET taken == {k \in DOMAIN PayloadPaths : PathTaken(data, k)}
    IN  IF taken = {} THEN <<>> ELSE PathValue(data, Least(taken)).val

\* part_005:71-143: the catch block returns [] when a record throws
transformRedBusData(data) ==
    LET busList == SelectBusList(data)
    IN  IF Len(busList) = 0 THEN Returns(<<>>)
        ELSE IF \E j \in DOMAIN busList : TransformRedBus(busList[j]).threw THEN Returns(<<>>)
        ELSE Returns([j \in DOMAIN busList |-> TransformRedBus(busList[j]).value])

Normalizers == {"transformBusData", "transformRedBusData"}

NormalizerInputs == {[fn |-> f, arg |-> bus] : f \in Normalizers, bus \in RawBuses}

CallTransformBusData ==
    /\ fnName = "none"
    /\ fnInput.fn = "transformBusData"
    /\ fnName' = fnInput.fn
    /\ fnOutput' = transformBusData(fnInput.arg)
    /\ UNCHANGED fnInput
    /\ UNCHANGED <<scrapeVars, applyVars, uiVars>>

CallTransformRedBusData ==
    /\ fnName = "none"
    /\ fnInput.fn = "transformRedBusData"
    /\ fnName' = fnInput.fn
    /\ fnOutput' = transformRedBusData(ArrayPayload(<<fnInput.arg>>))
    /\ UNCHANGED fnInput
    /\ UNCHANGED <<scrapeVars, applyVars, uiVars>>

InitNormalize ==
    /\ fnName = "none"
    /\ fnInput \in NormalizerInputs
    /\ fnOutput = <<>>
    /\ ScrapeIdle
    /\ ApplyIdle
    /\ UiIdle

NextNormalize ==
    \/ CallTransformBusData
    \/ CallTransformRedBusData

SpecNormalize == InitNormalize /\ [][NextNormalize]_vars

\* The record a normalizer returned for its input record.
Normalized ==
    IF fnName = "transformRedBusData" THEN fnOutput.value[1] ELSE fnOutput.value

\* C16: for every raw record whose optional fields are missing, of another
\* type or under an alternate name, the normalizer does not throw and
\* returns a record (one per input record) in which durationMinutes and
\* price are numbers, 0 when the record gives neither a duration nor two
\* times, or no fare, and boardingPoints is a list, empty when the record
\* gives no list of points.
C16_NormalizersDefault ==
    fnName \in Normalizers =>
        /\ ~fnOutput.threw
        /\ (fnName = "transformRedBusData" => Len(fnOutput.value) = 1)
        /\ Normalized.durationMinutes.kind = "number"
        /\ (~Truthy(fnInput.arg.duration)
            /\ (fnInput.arg.departureTime.kind # "string"
                \/ fnInput.arg.arrivalTime.kind # "string")
                => Normalized.durationMinutes = JsNumber(0))
        /\ Normalized.price.kind = "number"
        /\ (fnInput.arg.fareList.kind # "array" /\ fnInput.arg.fare.kind # "number"
                => Normalized.price = JsNumber(0))
        /\ (fnInput.arg.boardingPoints.kind # "array" /\ fnInput.arg.bpList.kind # "array"
                => Normalized.boardingPoints = <<>>)

(***************************************************************************)
(* parseLayerName (layer-parser.ts).  A layer name is a sequence of        *)
(* tokens: the punctuation of the pattern, identifiers, digits, a blank    *)
(* and other text.                                                         *)
(***************************************************************************)
DigitTokens == {"0", "1", "2"}

\* [a-zA-Z0-9_]+
IdentTokens == {"group", "attr", "all", "href"} \cup DigitTokens

\* The pieces the layer names are made of.
NamePrefixes == {<<>>, <<"Card", " ">>, <<"@{", "}">>, <<"}", "@{">>}

TagContents == {<<"h1">>, <<" ", ".price", " ">>, <<" ">>, <<"a", "(", "href", ")">>}

NameSuffixes ==
    {<<>>, <<".">>, <<".", "all">>, <<" ", ".", "all">>, <<".", "-", "all">>,
     <<".", "group", "[", "0", "]">>, <<".", "group", "[", "1", "2", "]">>,
     <<".", "group", "[", "0", "]", "x">>,
     <<".", "group", "[", "href", "]">>, <<".", "group", "[", "0">>,
     <<".", "group", "[", "]">>, <<".", "group", "(", "0", ")">>,
     <<".", "group", "all", "[", "0", "]">>, <<".", "all", "[", "0", "]">>,
     <<".", "attr", "(", "href", ")">>, <<".", "attr", "(", "data-id", " ", ")">>,
     <<".", "attr", "(", ")">>, <<".", "attr", "(", "href">>,
     <<".", "attr", "[", "1", "]">>, <<".", "all", "(", "href", ")">>,
     <<"[", "0", "]">>, <<"(", "href", ")">>}

NameEnds == {<<>>, <<" ", "@{", "h2", "}", ".", "group", "[", "2", "]">>}

LayerNames ==
    {p \o s \o e : p \in NamePrefixes, s \in NameSuffixes, e \in NameEnds}
    \cup {p \o <<"@{">> \o c \o <<"}">> \o s \o e :
            p \in NamePrefixes, c \in TagContents, s \in NameSuffixes, e \in NameEnds}

\* String.prototype.trim on tokens
RECURSIVE Trim(_)
Trim(text) ==
    IF text = <<>> THEN <<>>
    ELSE IF Head(text) = " " THEN Trim(Tail(text))
    ELSE IF text[Len(text)] = " " THEN Trim(SubSeq(text, 1, Len(text) - 1))
    ELSE text

\* parseInt(digits, 10)
RECURSIVE ParseInt(_)
ParseInt(digits) ==
    IF digits = <<>> THEN 0
    ELSE 10 * ParseInt(SubSeq(digits, 1, Len(digits) - 1))
         + (CHOOSE d \in 0..9 : NumStr(d) = digits[Len(digits)])

\* `@\{([^}]+)\}` matched at position i: the position of the closing brace,
\* or 0
TagEnd(name, i) ==
    LET closing == {j \in (i + 1)..Len(name) : name[j] = "}"}
    IN  IF name[i] # "@{" \/ closing = {} \/ Least(closing \cup {Len(name) + 1}) = i + 1
        THEN 0
        ELSE Least(closing)

\* The end of the longest run of tokens of `tokens` that starts at `from`,
\* or from - 1.
RunEnd(name, from, tokens) ==
    LET stops == {j \in from..Len(name) : name[j] \notin tokens}
    IN  IF stops = {} THEN Len(name) ELSE Least(stops) - 1

NoSelector ==
    [isNull |-> TRUE, selector |-> <<>>, modifier |-> <<>>, attribute |-> <<>>,
     hasGroupIndex |-> FALSE, groupIndex |-> 0]

\* A parser that takes the bracketed number as groupIndex for any modifier.
GroupIndexSetAlways(indexed, modifier) == indexed

\* line 33: `indexOrAttr !== undefined && modifier === 'group'`
GroupIndexSet(indexed, modifier) == indexed /\ modifier = <<"group">>

\* layer-parser.ts:8-38; undefined is the empty sequence
parseLayerName(name) ==
    LET starts == {i \in DOMAIN name : TagEnd(name, i) # 0}
    IN  IF starts = {} THEN NoSelector
        ELSE LET i == Least(starts)
                 j == TagEnd(name, i)
                 e == IF j + 1 <= Len(name) /\ name[j + 1] = "."
                      THEN RunEnd(name, j + 2, IdentTokens) ELSE j + 1
                 hasModifier == e >= j + 2
                 d == RunEnd(name, e + 2, DigitTokens)
                 indexed == /\ hasModifier
                            /\ e + 1 <= Len(name) /\ name[e + 1] = "["
                            /\ d >= e + 2
                            /\ d + 1 <= Len(name) /\ name[d + 1] = "]"
                 c == RunEnd(name, e + 2, {name[k] : k \in DOMAIN name} \ {")"})
                 called == /\ hasModifier
                           /\ e + 1 <= Len(name) /\ name[e + 1] = "("
                           /\ c >= e + 2
                           /\ c + 1 <= Len(name)
                 modifier == IF hasModifier THEN SubSeq(name, j + 2, e) ELSE <<>>
             IN  [isNull |-> FALSE,
                  selector |-> Trim(SubSeq(name, i + 1, j - 1)),
                  modifier |-> modifier,
                  attribute |-> IF called THEN SubSeq(name, e + 2, c) ELSE <<>>,
                  hasGroupIndex |-> GroupIndexSet(indexed, modifier),
                  groupIndex |-> IF GroupIndexSet(indexed, modifier)
                                 THEN ParseInt(SubSeq(name, e + 2, d)) ELSE 0]

CallParseLayerName ==
    /\ fnName = "none"
    /\ fnInput.fn = "parseLayerName"
    /\ fnName' = fnInput.fn
    /\ fnOutput' = parseLayerName(fnInput.arg)
    /\ UNCHANGED fnInput
    /\ UNCHANGED <<scrapeVars, applyVars, uiVars>>

InitParse ==
    /\ fnName = "none"
    /\ fnInput \in {[fn |-> "parseLayerName", arg |-> name] : name \in LayerNames}
    /\ fnOutput = <<>>
    /\ ScrapeIdle
    /\ ApplyIdle
    /\ UiIdle

NextParse == CallParseLayerName

SpecParse == InitParse /\ [][NextParse]_vars

\* ---- parseLayerName: properties ----

\* name holds '@{', text that is not empty and has no '}', and '}' at i..j.
IsTag(name, i, j) ==
    /\ i \in DOMAIN name /\ j \in DOMAIN name /\ j > i + 1
    /\ name[i] = "@{" /\ name[j] = "}"
    /\ \A k \in (i + 1)..(j - 1) : name[k] # "}"

Tags(name) == {t \in (DOMAIN name) \X (DOMAIN name) : IsTag(name, t[1], t[2])}

\* The first '@{...}' of a name that has one.
FirstTag(name) == CHOOSE t \in Tags(name) : \A u \in Tags(name) : t[1] <= u[1]

\* What follows the first tag.
Suffix(name) == SubSeq(name, FirstTag(name)[2] + 1, Len(name))

\* s begins with the tokens of p.
StartsWith(s, p) == Len(s) >= Len(p) /\ SubSeq(s, 1, Len(p)) = p

\* The suffix is '.group[N]...': the positions of the suffix where ']' closes
\* a number that is not empty.
GroupSuffixes(suffix) ==
    IF ~StartsWith(suffix, <<".", "group", "[">>) THEN {}
    ELSE {d \in 5..Len(suffix) : /\ suffix[d] = "]"
                                 /\ \A k \in 4..(d - 1) : suffix[k] \in DigitTokens}

\* The suffix is '.attr(arg)...': the positions of the suffix where ')'
\* closes an argument that is not empty.
AttrSuffixes(suffix) ==
    IF ~StartsWith(suffix, <<".", "attr", "(">>) THEN {}
    ELSE {c \in 5..Len(suffix) : /\ suffix[c] = ")"
                                 /\ \A k \in 4..(c - 1) : suffix[k] # ")"}

\* The suffix is '.modifier' followed by a bracket or a parenthesis that
\* encloses nothing, is not closed or, for a bracket, holds no number.
Malformed(suffix) ==
    /\ Len(suffix) >= 3
    /\ suffix[1] = "." /\ suffix[2] \in IdentTokens /\ suffix[3] \in {"[", "("}
    /\ \/ Len(suffix) = 3
       \/ suffix[4] \in {"]", ")"}
       \/ (suffix[3] = "[" /\ ~\E d \in 5..Len(suffix) :
                                /\ suffix[d] = "]"
                                /\ \A k \in 4..(d - 1) : suffix[k] \in DigitTokens)
       \/ (suffix[3] = "(" /\ ~\E c \in 5..Len(suffix) : suffix[c] = ")")

\* C17: parseLayerName returns null exactly for the names without a
\* '@{...}' that has content; otherwise the selector is the trimmed text of
\* the first '@{...}', the modifier is the identifier that directly follows
\* '.' after it (none when no '.' with an identifier follows), groupIndex is
\* set, to N, exactly when the suffix is '.group[N]', attribute is arg when
\* the suffix is '.attr(arg)', and a malformed bracket or parenthesis leaves
\* the selector matched with neither groupIndex nor attribute set.
C17_ParseLayerName ==
    fnName = "parseLayerName" =>
        LET name == fnInput.arg
            parsed == fnOutput
        IN  /\ parsed.isNull <=> Tags(name) = {}
            /\ Tags(name) # {} =>
                LET tag == FirstTag(name)
                    suffix == Suffix(name)
                IN  /\ parsed.selector = Trim(SubSeq(name, tag[1] + 1, tag[2] - 1))
                    /\ IF Len(suffix) >= 2 /\ suffix[1] = "." /\ suffix[2] \in IdentTokens
                       THEN /\ parsed.modifier # <<>>
                            /\ StartsWith(Tail(suffix), parsed.modifier)
                            /\ \A k \in DOMAIN parsed.modifier : parsed.modifier[k] \in IdentTokens
                            /\ (Len(suffix) > Len(parsed.modifier) + 1 =>
                                    suffix[Len(parsed.modifier) + 2] \notin IdentTokens)
                       ELSE parsed.modifier = <<>>
                    /\ parsed.hasGroupIndex <=> GroupSuffixes(suffix) # {}
                    /\ \A d \in GroupSuffixes(suffix) :
                            parsed.groupIndex = ParseInt(SubSeq(suffix, 4, d - 1))
                    /\ (parsed.hasGroupIndex => parsed.modifier = <<"group">>)
                    /\ (AttrSuffixes(suffix) # {} =>
                            parsed.attribute = SubSeq(suffix, 4, Least(AttrSuffixes(suffix)) - 1))
                    /\ (Malformed(suffix) =>
                            ~parsed.hasGroupIndex /\ parsed.attribute = <<>>)

\* 'Card @{ .price }.group[12]' was parsed: selector '.price', modifier
\* group, groupIndex 12.
C17_Witness ==
    /\ fnName = "parseLayerName"
    /\ fnInput.arg = <<"Card", " ", "@{", " ", ".price", " ", "}",
                       ".", "group", "[", "1", "2", "]">>
    /\ fnOutput = [isNull |-> FALSE, selector |-> <<".price">>, modifier |-> <<"group">>,
                   attribute |-> <<>>, hasGroupIndex |-> TRUE, groupIndex |-> 12]

\* part_005:311-313: config.transform on one captured payload
CallTransformPayload ==
    /\ fnName = "none"
    /\ fnInput.fn = "transform"
    /\ fnName' = fnInput.fn
    /\ fnOutput' = transformRedBusData(fnInput.arg)
    /\ UNCHANGED fnInput
    /\ UNCHANGED <<scrapeVars, applyVars, uiVars>>

InitPayload ==
    /\ fnName = "none"
    /\ fnInput \in {[fn |-> "transform", arg |-> data] : data \in Payloads}
    /\ fnOutput = <<>>
    /\ ScrapeIdle
    /\ ApplyIdle
    /\ UiIdle

NextPayload == CallTransformPayload

SpecPayload == InitPayload /\ [][NextPayload]_vars

\* The paths of a payload that hold an array that is not empty.
FullPaths(data) ==
    {k \in DOMAIN PayloadPaths :
        PathValue(data, k).kind = "array" /\ Len(PathValue(data, k).val) > 0}

\* C20: the records of a payload are those of the first path, in the fixed
\* order, that holds a non-empty array, whatever the paths before it hold
\* (absent or an empty array); a payload without such a path gives no record.
C20_FirstNonEmptyPathWins ==
    fnName = "transform" =>
        IF FullPaths(fnInput.arg) = {}
        THEN fnOutput.value = <<>>
        ELSE /\ Len(fnOutput.value) = 1
             /\ fnOutput.value[1].price = JsNumber(Least(FullPaths(fnInput.arg)))

(***************************************************************************)
(* The script of createExtractorScript (selector-extractor.ts), run on a   *)
(* page: for each descriptor the page answers its selector with a number   *)
(* of elements, or the selector is not valid CSS and the query throws.     *)
(***************************************************************************)
MaxMatches == 3

MaxResults == 2

\* options.maxResults as the script receives it: the handler caps it at
\* 100 and scrapeWebsite replaces 0 by 10, so it is never 0; nothing
\* rejects a negative number.
MaxResultsValues == (-1..MaxResults) \ {0}

NoIndex == [set |-> FALSE, n |-> 0]

Indexes == {NoIndex} \cup {[set |-> TRUE, n |-> n] : n \in -1..MaxMatches}

\* A descriptor, with what the page holds for its selector.
Descriptors(id) ==
    [id : {<<id>>}, modifier : {"", "all"}, index : Indexes,
     matches : 0..MaxMatches, valid : BOOLEAN]

\* The lists of one descriptor, and the lists of two descriptors with the
\* indexes up to 0 and 0, 1 or 3 matches.
SelectorLists ==
    {<<a>> : a \in Descriptors("a")}
    \cup {<<a, b>> : a \in {d \in Descriptors("a") : d.index.n <= 0 /\ d.matches # 2},
                     b \in {d \in Descriptors("b") : d.index.n <= 0 /\ d.matches # 2}}

\* extractData(element, config) for element k of the matches (lines 88-122)
ElementData(k) == <<"text of element", NumStr(k)>>

ExtractedResult(id, originalId, found, data, error, index) ==
    [id |-> id, originalId |-> originalId, found |-> found, data |-> data,
     error |-> error, index |-> index]

NotFound(config, error) == ExtractedResult(config.id, <<>>, FALSE, <<>>, error, NoIndex)

\* Array.prototype.slice(0, end) on n elements: how many it keeps
SliceCount(n, end) ==
    IF end < 0 THEN (IF n + end < 0 THEN 0 ELSE n + end)
    ELSE IF end < n THEN end ELSE n

\* lines 210-216: the catch block of one descriptor
ExtractCatch(config, message) == <<NotFound(config, message)>>

\* lines 126-153: modifier 'all'
ExtractAll(config, maxResults) ==
    IF ~config.valid
    THEN ExtractCatch(config, <<"is not a valid selector">>)
    ELSE IF config.matches = 0 THEN <<NotFound(config, <<"No elements found">>)>>
    ELSE [k \in 1..SliceCount(config.matches, maxResults) |->
            ExtractedResult(config.id \o <<"_", NumStr(k - 1)>>, config.id, TRUE,
                            ElementData(k - 1), <<>>, [set |-> TRUE, n |-> k - 1])]

\* lines 154-186: index given; elements[index] is undefined for a negative
\* index, and extractData throws on it
ExtractIndexed(config) ==
    IF ~config.valid
    THEN ExtractCatch(config, <<"is not a valid selector">>)
    ELSE IF config.matches = 0
    THEN <<NotFound(config, <<"No elements found for selector:">>)>>
    ELSE IF config.index.n >= config.matches
    THEN <<NotFound(config, <<"Index", "out of bounds">>)>>
    ELSE IF config.index.n < 0
    THEN ExtractCatch(config, <<"Cannot read properties of undefined">>)
    ELSE <<ExtractedResult(config.id, <<>>, TRUE, ElementData(config.index.n), <<>>, NoIndex)>>

\* lines 187-209: querySelector
ExtractSingle(config) ==
    IF ~config.valid
    THEN ExtractCatch(config, <<"is not a valid selector">>)
    ELSE IF config.matches = 0
    THEN <<NotFound(config, <<"Element not found for selector:">>)>>
    ELSE <<ExtractedResult(config.id, <<>>, TRUE, ElementData(0), <<>>, NoIndex)>>

\* lines 124-218: the results one descriptor pushes
ExtractOne(config, maxResults) ==
    IF config.modifier = "all" THEN ExtractAll(config, maxResults)
    ELSE IF config.index.set THEN ExtractIndexed(config)
    ELSE ExtractSingle(config)

\* lines 84-221: selectorsList.forEach
RECURSIVE ExtractorScript(_, _)
ExtractorScript(selectorsList, maxResults) ==
    IF selectorsList = <<>> THEN <<>>
    ELSE ExtractOne(Head(selectorsList), maxResults)
         \o ExtractorScript(Tail(selectorsList), maxResults)

CallExtractorScript ==
    /\ fnName = "none"
    /\ fnInput.fn = "extractorScript"
    /\ fnName' = fnInput.fn
    /\ fnOutput' = ExtractorScript(fnInput.arg.selectors, fnInput.arg.maxResults)
    /\ UNCHANGED fnInput
    /\ UNCHANGED <<scrapeVars, applyVars, uiVars>>

InitExtract ==
    /\ fnName = "none"
    /\ fnInput \in {[fn |-> "extractorScript",
                     arg |-> [selectors |-> list, maxResults |-> max]] :
                        list \in SelectorLists, max \in MaxResultsValues}
    /\ fnOutput = <<>>
    /\ ScrapeIdle
    /\ ApplyIdle
    /\ UiIdle

NextExtract == CallExtractorScript

SpecExtract == InitExtract /\ [][NextExtract]_vars

\* The results attributable to a descriptor, by id or by originalId.
ResultsOf(config) ==
    {r \in DOMAIN fnOutput : fnOutput[r].id = config.id \/ fnOutput[r].originalId = config.id}

\* The descriptor matches nothing, its index is out of range or its
\* evaluation throws.
Failing(config) ==
    \/ ~config.valid
    \/ config.matches = 0
    \/ /\ config.modifier # "all"
       /\ config.index.set
       /\ (config.index.n < 0 \/ config.index.n >= config.matches)

\* C19: every descriptor of the list is evaluated whatever the others do: a
\* descriptor that matches nothing, whose index is out of range or whose
\* evaluation throws has exactly one result, with its id, found = false and
\* an error that is not empty; every descriptor has at least one result
\* attributable to it; an 'all' descriptor has at most maxResults results.
C19_DescriptorsIndependent ==
    fnName = "extractorScript" =>
        \A j \in DOMAIN fnInput.arg.selectors :
            LET config == fnInput.arg.selectors[j]
            IN  /\ ResultsOf(config) # {}
                /\ (Failing(config) =>
                        /\ Cardinality(ResultsOf(config)) = 1
                        /\ \A r \in ResultsOf(config) :
                            /\ fnOutput[r].id = config.id
                            /\ ~fnOutput[r].found
                            /\ fnOutput[r].error # <<>>)
                /\ (config.modifier = "all" =>
                        Cardinality(ResultsOf(config)) <= fnInput.arg.maxResults)

-----------------------------------------------------------------------------
\* C18: input errors of a scrape request.

\* isValidUrl (scraper.ts:355-362): new URL(url) succeeds and the protocol is
\* http: or https:.  The request handler answers 400 'Invalid URL. Must be a
\* valid HTTP/HTTPS URL.' when it is false and never calls scrapeWebsite.
isValidUrl(url) == url.valid

\* A request for Direct-API extraction whose URL lacks fromCityId, toCityId or
\* the date (onward / doj): parseRedBusUrl returns null for it.
DirectWithoutParameters(req) ==
    /\ req.extractionMode = "direct"
    /\ ~parseRedBusUrl(req.url)

\* The request has gone no further than its validation: no browser was
\* launched, no page opened and no extraction stage (each of which loads the
\* page or calls the RedBus API) has run.
NothingLaunched ==
    /\ browser = "null"
    /\ page = "null"
    /\ stages = <<>>

\* C18: a scrape request whose URL is malformed, or which asks for Direct-API
\* extraction with a URL lacking a required query parameter (fromCityId,
\* toCityId, onward/doj), is rejected before any network call is made and
\* before any browser is launched.  A malformed URL is turned away by the
\* handler before scrapeWebsite is called, so over the states of scrapeWebsite
\* the statement is about the requests the handler lets through: for a
\* Direct-API request without the parameters nothing is ever launched.
C18_InputErrorsRejectedEarly ==
    (isValidUrl(request.url) /\ DirectWithoutParameters(request)) => NothingLaunched

-----------------------------------------------------------------------------
\* C23, C24, C25: the response of scrapeWebsite.

\* scrapeWebsite has returned a ScrapeResponse to its caller.
HasReturned == response.kind = "returned"

\* C23: whenever a response of scrapeWebsite carries dataLayerItems, its
\* results list has the same length and results[i] is {id: 'item_i',
\* found: true, data: JSON of dataLayerItems[i]}, whichever strategy (direct,
\* xhr / injection, dataLayer) produced the items.
C23_ResultsMirrorItems ==
    (HasReturned /\ response.dataLayerItems.defined) =>
        response.results = ToResults(response.dataLayerItems.v)

\* C24: every response of scrapeWebsite with success = false carries at least
\* one error message in errors, also when fallbackOnError is false and the
\* Direct API answered successfully but with zero buses.
C24_FailureCarriesError ==
    (HasReturned /\ ~response.success) => Len(response.errors) >= 1

\* C25: the number of items in the dataLayerItems scrapeWebsite returns never
\* exceeds options.maxResults, whichever strategy produced them.
C25_ItemsWithinMaxResults ==
    (HasReturned /\ response.dataLayerItems.defined) =>
        Len(response.dataLayerItems.v) <= request.maxResults

(***************************************************************************)
(* extractViaInjection (xhr-extractor): the search of the page state       *)
(***************************************************************************)
\* if (depth > 5 || !obj) return null
MaxDepth == 5

\* The most keys an object of a page state has.
MaxKeys == 2

\* The longest chain of nested objects above a bus list.
MaxChain == 7

\* The values of a page state.  An array whose first element has `travels` is a
\* bus list; an object has keys in the order Object.keys lists them, each one
\* containing 'bus', 'inventory' or 'result' (match) or not, and leading to a
\* value of the state (a cycle when it leads back); every other value (a
\* primitive, null, an array without the sentinel, whose keys are its
\* indexes) offers nothing to descend into.
BusArrayNode == [kind |-> "busArray", keys |-> <<>>]

OtherNode == [kind |-> "other", keys |-> <<>>]

ObjectNode(keys) == [kind |-> "object", keys |-> keys]

\* Two objects (values 1 and 2), a bus list (3) and another value (4).  A key
\* that matches leads to any of them; a key that does not match leads to the
\* bus list.
StateKeys ==
    {[match |-> TRUE, to |-> t] : t \in 1..4}
    \cup {[match |-> FALSE, to |-> 3]}

KeyLists(most) == UNION {[1..n -> StateKeys] : n \in 0..most}

\* The first object has up to MaxKeys keys, the second one at most one.
SmallStates ==
    {<<ObjectNode(k1), ObjectNode(k2), BusArrayNode, OtherNode>> :
        k1 \in KeyLists(MaxKeys), k2 \in KeyLists(1)}

\* n objects nested in one another under matching keys, the innermost one
\* holding the bus list: the list lies n levels below the global.
NestedChain(n) ==
    [i \in 1..(n + 1) |->
        IF i <= n THEN ObjectNode(<<[match |-> TRUE, to |-> i + 1]>>)
        ELSE BusArrayNode]

PageStates == SmallStates \cup {NestedChain(n) : n \in 0..MaxChain}

\* The list `sources` of candidate globals: a value of the state, undefined,
\* or the text of a script element that JSON.parse rejects.
ValueSource(node) == [kind |-> "value", node |-> node]

UndefinedSource == [kind |-> "undefined", node |-> 1]

UnparsableSource == [kind |-> "unparsable", node |-> 1]

SourceLists(state) ==
    {s \in {<<ValueSource(1)>>, <<UndefinedSource>>, <<UnparsableSource>>,
            <<UndefinedSource, ValueSource(1)>>, <<UnparsableSource, ValueSource(1)>>,
            <<ValueSource(1), ValueSource(2)>>} :
        \A i \in DOMAIN s : s[i].node <= Len(state)}

InjectionInputs ==
    UNION {{[fn |-> "extractViaInjection", arg |-> [state |-> g, sources |-> s]] :
                s \in SourceLists(g)} : g \in PageStates}

\* line 375, first disjunct
DepthExceededLate(depth) == depth > MaxDepth + 1

DepthExceeded(depth) == depth > MaxDepth

\* A call of findBusList(obj, depth) under way; next is 0 at its entry and
\* then the position in Object.keys(obj) of the key the loop is at.
Frame(node, depth) == [node |-> node, depth |-> depth, next |-> 0]

Top(stack) == stack[Len(stack)]

\* `return null` of the innermost call: its caller goes on with its next key;
\* when the outermost call returns null the loop over the sources goes on.
ReturnNull(st) ==
    LET rest == SubSeq(st.stack, 1, Len(st.stack) - 1)
    IN  IF rest = <<>>
        THEN [st EXCEPT !.stack = <<>>, !.source = st.source + 1, !.steps = st.steps + 1]
        ELSE [st EXCEPT !.stack = [rest EXCEPT ![Len(rest)].next = Top(rest).next + 1],
                        !.steps = st.steps + 1]

\* lines 353-368: page.evaluate is called and the script builds `sources`
InjectStart ==
    /\ fnName = "none"
    /\ fnInput.fn = "extractViaInjection"
    /\ fnName' = fnInput.fn
    /\ fnOutput' = [pc |-> "search", source |-> 1, stack |-> <<>>, inspected |-> {},
                    calls |-> 0, steps |-> 0, found |-> 0, result |-> NoResult]
    /\ UNCHANGED fnInput
    /\ UNCHANGED <<scrapeVars, applyVars, uiVars>>

\* lines 369-372, 392, 402: the loop over the sources
NextSource ==
    /\ fnName = "extractViaInjection"
    /\ fnOutput.pc = "search"
    /\ fnOutput.stack = <<>>
    /\ LET st == fnOutput
           sources == fnInput.arg.sources
       IN  fnOutput' =
            IF st.source > Len(sources)
            THEN [st EXCEPT !.pc = "evaluated", !.steps = st.steps + 1]
            ELSE IF sources[st.source].kind # "value"
            THEN [st EXCEPT !.source = st.source + 1, !.steps = st.steps + 1]
            ELSE [st EXCEPT !.stack = <<Frame(sources[st.source].node, 0)>>,
                            !.calls = st.calls + 1, !.steps = st.steps + 1]
    /\ UNCHANGED <<fnName, fnInput>>
    /\ UNCHANGED <<scrapeVars, applyVars, uiVars>>

\* lines 375-379, 389: the entry of findBusList
FindEnter ==
    /\ fnName = "extractViaInjection"
    /\ fnOutput.pc = "search"
    /\ fnOutput.stack # <<>>
    /\ Top(fnOutput.stack).next = 0
    /\ LET st == fnOutput
           f == Top(st.stack)
           node == fnInput.arg.state[f.node]
           seen == [st EXCEPT !.inspected = st.inspected \cup {<<f.node, f.depth>>}]
       IN  fnOutput' =
            IF DepthExceeded(f.depth) THEN ReturnNull(st)
            ELSE IF node.kind = "busArray"
            THEN [seen EXCEPT !.stack = <<>>, !.pc = "evaluated", !.found = f.node,
                              !.steps = st.steps + 1]
            ELSE IF node.kind = "object"
            THEN [seen EXCEPT !.stack[Len(st.stack)].next = 1, !.steps = st.steps + 1]
            ELSE ReturnNull(seen)
    /\ UNCHANGED <<fnName, fnInput>>
    /\ UNCHANGED <<scrapeVars, applyVars, uiVars>>

\* lines 380-388: one turn of the loop over Object.keys(obj)
FindKey ==
    /\ fnName = "extractViaInjection"
    /\ fnOutput.pc = "search"
    /\ fnOutput.stack # <<>>
    /\ Top(fnOutput.stack).next > 0
    /\ LET st == fnOutput
           f == Top(st.stack)
           keys == fnInput.arg.state[f.node].keys
       IN  fnOutput' =
            IF f.next > Len(keys) THEN ReturnNull(st)
            ELSE IF keys[f.next].match
            THEN [st EXCEPT !.stack = Append(st.stack, Frame(keys[f.next].to, f.depth + 1)),
                            !.calls = st.calls + 1, !.steps = st.steps + 1]
            ELSE [st EXCEPT !.stack[Len(st.stack)].next = f.next + 1,
                            !.steps = st.steps + 1]
    /\ UNCHANGED <<fnName, fnInput>>
    /\ UNCHANGED <<scrapeVars, applyVars, uiVars>>

\* lines 413-415: page.evaluate rejects
EvaluateThrows ==
    /\ fnName = "extractViaInjection"
    /\ fnOutput.pc = "search"
    /\ fnOutput.steps = 0
    /\ fnOutput' = [fnOutput EXCEPT
            !.pc = "done",
            !.result = extractViaInjection([kind |-> "evaluateThrows", raw |-> 0,
                                            n |-> 0]).value]
    /\ UNCHANGED <<fnName, fnInput>>
    /\ UNCHANGED <<scrapeVars, applyVars, uiVars>>

\* lines 405-411, 417: the result; the normalizer returns the list's records
\* or, when it catches an exception, none
InjectFinish ==
    /\ fnName = "extractViaInjection"
    /\ fnOutput.pc = "evaluated"
    /\ \E n \in {0, 1} :
        fnOutput' = [fnOutput EXCEPT
            !.pc = "done",
            !.result = extractViaInjection(
                            IF fnOutput.found # 0
                            THEN [kind |-> "found", raw |-> 1, n |-> n]
                            ELSE [kind |-> "notFound", raw |-> 0, n |-> 0]).value]
    /\ UNCHANGED <<fnName, fnInput>>
    /\ UNCHANGED <<scrapeVars, applyVars, uiVars>>

InitInject ==
    /\ fnName = "none"
    /\ fnInput \in InjectionInputs
    /\ fnOutput = <<>>
    /\ ScrapeIdle
    /\ ApplyIdle
    /\ UiIdle

NextInject ==
    \/ InjectStart
    \/ NextSource
    \/ FindEnter
    \/ FindKey
    \/ EvaluateThrows
    \/ InjectFinish

SpecInject == InitInject /\ [][NextInject]_vars

\* ---- extractViaInjection: properties ----

RECURSIVE Power(_, _)
Power(b, e) == IF e = 0 THEN 1 ELSE b * Power(b, e - 1)

RECURSIVE CallsToDepth(_)
\* The calls of findBusList one source can cause: at most MaxKeys ^ d at depth d.
CallsToDepth(d) ==
    IF d = 0 THEN 1 ELSE Power(MaxKeys, d) + CallsToDepth(d - 1)

\* The steps a search can take: each call is entered once and turns its loop
\* at most once per key and once more to leave it.
StepBound ==
    LET n == Len(fnInput.arg.sources)
    IN  (n + 1) + n * CallsToDepth(MaxDepth + 1) * (MaxKeys + 2)

InjectionRunning == fnName = "extractViaInjection" /\ fnOutput.pc # "done"

\* C21: the page-state search of the Injection fallback terminates on every
\* object graph, cyclic ones included (it takes a bounded number of steps and
\* is never stuck before it is done), never inspects a value nested more than
\* 5 levels below a candidate global, and when it finds no array with the
\* sentinel field within that depth extractViaInjection returns success = false
\* with zero items and a non-empty errors list.
C21_SearchBounded ==
    fnName = "extractViaInjection" =>
        /\ fnOutput.steps <= StepBound
        /\ InjectionRunning => ENABLED NextInject
        /\ \A v \in fnOutput.inspected : v[2] <= MaxDepth
        /\ Len(fnOutput.stack) <= MaxDepth + 2
        /\ (fnOutput.pc = "done" /\ fnOutput.found = 0) =>
                /\ ~fnOutput.result.success
                /\ fnOutput.result.items = <<>>
                /\ fnOutput.result.errors # <<>>

\* A page state whose object refers to itself under a matching key has been
\* searched down to level 5 and no further, and nothing was found.
C21_Witness ==
    /\ fnName = "extractViaInjection"
    /\ fnOutput.pc = "done"
    /\ fnOutput.found = 0
    /\ fnInput.arg.sources = <<ValueSource(1)>>
    /\ fnInput.arg.state[1].keys = <<[match |-> TRUE, to |-> 1]>>
    /\ <<1, MaxDepth>> \in fnOutput.inspected
    /\ fnOutput.result.errors = <<<<"Could not find bus data in page state">>>>

-----------------------------------------------------------------------------
\* C28: frames of one ordinal, layers of one field name.

\* The nodes of `todo` and everything below them in depth-first pre-order: a
\* node, then its children with all that is below them, then its later
\* siblings.
RECURSIVE PreOrder(_)
PreOrder(todo) ==
    IF todo = <<>> THEN <<>>
    ELSE <<Head(todo)>> \o PreOrder(document.nodes[Head(todo)].children \o Tail(todo))

\* The node of the set S that comes last in the list `order`.
LastIn(order, S) ==
    LET at == CHOOSE k \in DOMAIN order :
                /\ order[k] \in S
                /\ \A j \in DOMAIN order : order[j] \in S => j <= k
    IN  order[at]

\* The layers below (or at) frame f whose name carries the field name `key`.
LayersOfField(f, key) ==
    {n \in Subtree(f) : parseFieldName(document.nodes[n].name) = <<key>>}

\* The text nodes the fields of record i were written to.
WrittenBy(i) ==
    {attempts[k].textNode : k \in {j \in DOMAIN attempts :
        attempts[j].item = i /\ attempts[j].outcome = "written"}}

\* C28: when several frames in scope carry the same ordinal N, record N is
\* written into exactly one of them, the last one in depth-first pre-order,
\* and nothing outside that frame is written by the record; likewise when
\* several layers inside the paired frame carry the same field name, only the
\* last one in depth-first pre-order is written.
C28_LastInPreOrderWins ==
    ApplyDone =>
        \A i \in 0..(Len(applyMsg.items) - 1) :
            LET scope == PreOrder(getNodesForScope(applyMsg.scope))
                last == LastIn(scope, FramesOfOrdinal(i))
            IN  FramesOfOrdinal(i) # {} =>
                    /\ \A k \in DOMAIN attempts :
                        attempts[k].item = i =>
                            /\ attempts[k].frame = last
                            /\ attempts[k].layer # 0 =>
                                attempts[k].layer =
                                    LastIn(PreOrder(<<last>>),
                                           LayersOfField(last, attempts[k].key))
                    /\ WrittenBy(i) \subseteq Subtree(last)
                    /\ \A t \in TextNodes \ Subtree(last) :
                        t \notin WrittenBy(i)

\* Two sibling cards of ordinal 0: record 0 went into the second one and the
\* first one kept its text.
C28_Witness ==
    /\ ApplyDone
    /\ document.nodes = SiblingCards(<<FrameTag(0)>>, <<FrameTag(0)>>)
    /\ applyMsg.scope = "page"
    /\ Len(applyMsg.items) >= 1
    /\ fault = NoFault
    /\ characters[9] = <<"Bus", "0">>
    /\ characters[6] = <<"Sample">>
    /\ characters[7] = <<"Sample">>

(***************************************************************************)
(* figma.ui.onmessage: the 'apply-data' handler, and the exchange of apply *)
(* messages between the UI and the plugin's main thread                    *)
(***************************************************************************)
\* How often the user starts an apply.
MaxApplies == 2

\* The results of one 'apply-data' message are at most this many.
MaxApplyResults == 2

\* The documents the apply messages are sent to, and the nodes the results
\* name: 6 (a frame holding a text node / a text node), 7 (a rectangle / a
\* group holding a text node), 9 (a frame without text / a frame holding a
\* text node two levels down) and 0, the id of a node that was removed.
PluginDocuments ==
    {[nodes |-> n, pages |-> <<1, 2>>, currentPage |-> 1] :
        n \in {WrappedFields(<<FrameTag(0)>>, <<>>),
               RepeatedFields(<<FrameTag(0)>>, <<FrameTag(1)>>)}}

ResultTargets == {0, 6, 7, 9}

\* A ScrapeResult.  originalId and index are <<>> when undefined; bytes tells
\* whether the UI attached the bytes of the image.
ScrapeResult(id, originalId, index, found, data, type, bytes) ==
    [id |-> id, originalId |-> originalId, index |-> index, found |-> found,
     data |-> data, type |-> type, bytes |-> bytes]

ResultsFor(t) ==
    {ScrapeResult(t, <<>>, <<>>, TRUE, <<"Bus", "0">>, "text", FALSE),
     ScrapeResult(t, <<>>, <<>>, FALSE, <<>>, "text", FALSE),
     ScrapeResult(t, <<>>, <<>>, TRUE, <<"https://img">>, "image", TRUE),
     ScrapeResult(t, <<>>, <<>>, TRUE, <<"https://img">>, "image", FALSE)}
    \cup {ScrapeResult(t, <<t>>, <<i>>, TRUE, <<"Bus", NumStr(i)>>, "text", FALSE) :
            i \in 0..1}

ScrapeResults == UNION {ResultsFor(t) : t \in ResultTargets}

ResultLists == UNION {[1..n -> ScrapeResults] : n \in 0..MaxApplyResults}

\* figma.getNodeById: <<id>>, or <<>> for null
getNodeById(nodes, id) == IF id \in DOMAIN nodes THEN <<id>> ELSE <<>>

\* 'fills' in node
HasFills(type) == type \notin {"GROUP", "PAGE"}

\* The nodes of `todo` and all below them, in depth-first pre-order, in a
\* document whose nodes are `nodes`.
RECURSIVE PreOrderIn(_, _)
PreOrderIn(nodes, todo) ==
    IF todo = <<>> THEN <<>>
    ELSE <<Head(todo)>> \o PreOrderIn(nodes, nodes[Head(todo)].children \o Tail(todo))

\* findTextInNode in a document whose nodes are `nodes`
RECURSIVE findTextAmong(_, _)
findTextAmong(nodes, todo) ==
    IF todo = <<>> THEN <<>>
    ELSE IF nodes[Head(todo)].type = "TEXT" THEN <<Head(todo)>>
    ELSE findTextAmong(nodes, nodes[Head(todo)].children \o Tail(todo))

\* The state of the 'apply-data' handler: the document, the counters, the
\* number of progress messages posted in the loop, and what each pass did.
ApplyDataState(nodes, chars) ==
    [nodes |-> nodes, characters |-> chars, updated |-> 0, failed |-> 0,
     progress |-> 0, passes |-> <<>>]

\* One pass is noted with the node it worked on and the counters it leaves.
Pass(st, node, outcome) ==
    [st EXCEPT !.passes = Append(@, [node |-> node, outcome |-> outcome,
                                     updated |-> st.updated, failed |-> st.failed])]

\* failed++
Failed(st, node, outcome) == Pass([st EXCEPT !.failed = @ + 1], node, outcome)

\* updated++
Updated(st, node, outcome) == Pass([st EXCEPT !.updated = @ + 1], node, outcome)

\* A missing node that is passed over without being counted.
MissingNodeSkipped(st) == Pass(st, 0, "noNode")

\* lines 278-281, 302-305: failed++; continue
MissingNode(st) == Failed(st, 0, "noNode")

\* originalNode.clone(): a copy of the node and of all below it is added to
\* the document, under the current page.  The copy of the node is the first
\* of the new nodes.
CloneNode(st, n) ==
    LET order == PreOrderIn(st.nodes, <<n>>)
        base == Len(st.nodes)
        NewId(old) == base + (CHOOSE k \in DOMAIN order : order[k] = old)
        Copy(old) ==
            LET kids == st.nodes[old].children
            IN  [st.nodes[old] EXCEPT !.children = [j \in DOMAIN kids |-> NewId(kids[j])]]
        copies == [k \in DOMAIN order |-> Copy(order[k])]
        grown == st.nodes \o copies
    IN  [st EXCEPT
            !.nodes = [grown EXCEPT ![document.currentPage].children =
                                        Append(@, base + 1)],
            !.characters = st.characters \o [k \in DOMAIN order |-> st.characters[order[k]]]]

\* lines 310-313 and 334-337: loadFontAsync, then the characters are set; an
\* exception of either is caught at line 347
WriteResult(st, node, textNode, data) ==
    LET w == WriteText(textNode, StringValue(data), st.characters)
    IN  IF w.threw THEN Failed(st, node, "caught")
        ELSE Updated([st EXCEPT !.characters = w.characters], node, "written")

\* lines 307-346: the node is there
ApplyToNode(st, node, r) ==
    IF r.found /\ r.data # <<>>
    THEN IF r.type = "text" /\ st.nodes[node].type = "TEXT"
         THEN WriteResult(st, node, node, r.data)
         ELSE IF r.type = "image" /\ r.bytes
         THEN IF HasFills(st.nodes[node].type) THEN Updated(st, node, "filled")
              ELSE Failed(st, node, "noFills")
         ELSE IF r.type = "text"
         THEN LET textNode == findTextAmong(st.nodes, <<node>>)
              IN  IF textNode # <<>> THEN WriteResult(st, node, textNode[1], r.data)
                  ELSE Failed(st, node, "noText")
         ELSE Failed(st, node, "noBytes")
    ELSE Failed(st, node, "notFound")

\* lines 353-358: the progress message that ends a pass; the passes left by
\* `continue` do not post it
Progress(st) == [st EXCEPT !.progress = @ + 1]

\* lines 270-358: one pass of the loop
ApplyResult(st, r) ==
    IF r.originalId # <<>> /\ r.index # <<>>
    THEN LET originalNode == getNodeById(st.nodes, r.originalId[1])
         IN  IF originalNode = <<>> THEN MissingNode(st)
             ELSE IF r.index[1] = 0 THEN Progress(ApplyToNode(st, originalNode[1], r))
             ELSE LET cloned == CloneNode(st, originalNode[1])
                  IN  Progress(ApplyToNode(cloned, Len(st.nodes) + 1, r))
    ELSE LET node == getNodeById(st.nodes, r.id)
         IN  IF node = <<>> THEN MissingNode(st)
             ELSE Progress(ApplyToNode(st, node[1], r))

\* lines 269-359: the loop over the results
RECURSIVE ApplyResults(_, _)
ApplyResults(st, list) ==
    IF list = <<>> THEN st
    ELSE ApplyResults(ApplyResult(st, Head(list)), Tail(list))

\* The terminal message is posted only when nothing failed.
SyncCompleteUnlessFailed(up, fl) ==
    IF fl > 0 THEN <<>> ELSE <<UiMessage("sync-complete", 0, up, fl, <<>>)>>

\* lines 361 and 373: postToUI({ type: 'sync-complete', updated, failed })
SyncComplete(up, fl) == <<UiMessage("sync-complete", 0, up, fl, <<>>)>>

\* The progress messages of the loop: current runs from 1 to n.
ProgressMessages(n, total) ==
    [k \in 1..n |-> [UiMessage("progress", total, 0, 0, <<"Applied">>) EXCEPT !.current = k]]

\* The messages the UI sends.
ApplyDataMessage(list) == [type |-> "apply-data", results |-> list]

ApplyDataLayerMessage(items, scope) ==
    [type |-> "apply-datalayer", items |-> items, scope |-> scope]

PluginMessages ==
    {ApplyDataMessage(r) : r \in ResultLists}
    \cup {ApplyDataLayerMessage(i, s) : i \in ItemLists, s \in SyncScopes}

\* The messages of the UI the main thread has not handled yet.
Unhandled == {k \in DOMAIN posted : ~posted[k].handled}

\* The UI starts an apply (handleApply of ui.tsx, lines 156-173; the
\* 'fetch-data' branch of the App): loading is set, then the message is posted.
\* The buttons are disabled while loading is true.
UiApply ==
    /\ clicksLeft > 0
    /\ ~ui.loading
    /\ ui' = [ui EXCEPT !.loading = TRUE]
    /\ posted' = Append(posted, [msg |-> ui.message, handled |-> FALSE])
    /\ clicksLeft' = clicksLeft - 1
    /\ UNCHANGED <<tasks, requests, timers, now, failuresLeft>>
    /\ UNCHANGED <<scrapeVars, applyVars, fnVars>>

\* lines 262-362: figma.ui.onmessage for an 'apply-data' message
HandleApplyData ==
    /\ Unhandled # {}
    /\ LET k == Least(Unhandled)
           msg == posted[k].msg
           st == ApplyResults(ApplyDataState(document.nodes, characters), msg.results)
       IN  /\ msg.type = "apply-data"
           /\ posted' = [posted EXCEPT ![k].handled = TRUE]
           /\ applyMsg' = msg
           /\ document' = [document EXCEPT !.nodes = st.nodes]
           /\ characters' = st.characters
           /\ attempts' = st.passes
           /\ applyOutcome' = [threw |-> FALSE, message |-> <<>>,
                               updated |-> st.updated, failed |-> st.failed]
           /\ uiMessages' = uiMessages
                \o <<UiMessage("progress", Len(msg.results), 0, 0,
                               <<"Applying data to layers...">>)>>
                \o ProgressMessages(st.progress, Len(msg.results))
                \o SyncComplete(st.updated, st.failed)
    /\ UNCHANGED <<selection, fault, applyPc>>
    /\ UNCHANGED <<ui, tasks, requests, timers, now, clicksLeft, failuresLeft>>
    /\ UNCHANGED <<scrapeVars, fnVars>>

\* lines 365-377: figma.ui.onmessage for an 'apply-datalayer' message the UI
\* has posted
HandlePostedDataLayer ==
    /\ Unhandled # {}
    /\ LET k == Least(Unhandled)
           msg == posted[k].msg
       IN  /\ msg.type = "apply-datalayer"
           /\ LET st == applyDataLayerItems(msg.items, msg.scope)
              IN  /\ posted' = [posted EXCEPT ![k].handled = TRUE]
                  /\ applyMsg' = msg
                  /\ characters' = st.characters
                  /\ attempts' = st.attempts
                  /\ applyOutcome' = [threw |-> st.threw, message |-> st.message,
                                      updated |-> st.updated, failed |-> st.failed]
                  /\ uiMessages' = uiMessages
                        \o <<UiMessage("progress", Len(msg.items), 0, 0,
                                       <<"Applying data to frames...">>)>>
                        \o (IF st.threw
                            THEN <<UiMessage("error", 0, 0, 0,
                                             IF st.message # <<>> THEN st.message
                                             ELSE <<"Failed to apply data">>)>>
                            ELSE SyncComplete(st.updated, st.failed))
    /\ UNCHANGED <<document, selection, fault, applyPc>>
    /\ UNCHANGED <<ui, tasks, requests, timers, now, clicksLeft, failuresLeft>>
    /\ UNCHANGED <<scrapeVars, fnVars>>

\* handleMessage of the UI (ui.tsx, lines 59-74) takes the next message of
\* the main thread: 'sync-complete' and 'error' clear loading.
UiReceive ==
    /\ ui.seen < Len(uiMessages)
    /\ ui' = [ui EXCEPT
                !.seen = @ + 1,
                !.loading = IF uiMessages[ui.seen + 1].type \in {"sync-complete", "error"}
                            THEN FALSE ELSE @]
    /\ UNCHANGED <<tasks, requests, timers, posted, now, clicksLeft, failuresLeft>>
    /\ UNCHANGED <<scrapeVars, applyVars, fnVars>>

\* The plugin is open on a document, and the UI holds the message it sends
\* with every apply.
InitPlugin ==
    /\ ScrapeIdle
    /\ FnIdle
    /\ document \in PluginDocuments
    /\ selection = <<>>
    /\ fault \in {NoFault} \cup {[kind |-> k, node |-> 8] : k \in {"font", "write"}}
    /\ characters = InitialCharacters
    /\ applyPc = "idle"
    /\ applyMsg = NoMessage
    /\ applyOutcome = NoApplyOutcome
    /\ attempts = <<>>
    /\ uiMessages = <<>>
    /\ ui \in {[open |-> TRUE, loading |-> FALSE, seen |-> 0, message |-> m] :
                    m \in PluginMessages}
    /\ tasks = <<>>
    /\ requests = <<>>
    /\ timers = <<>>
    /\ posted = <<>>
    /\ now = 0
    /\ clicksLeft = MaxApplies
    /\ failuresLeft = 0

NextPlugin ==
    \/ UiApply
    \/ HandleApplyData
    \/ HandlePostedDataLayer
    \/ UiReceive

SpecPlugin == InitPlugin /\ [][NextPlugin]_vars

\* ---- the apply handlers: properties ----

\* The terminal messages posted so far.
TerminalMessages ==
    SelectSeq(uiMessages, LAMBDA m : m.type \in {"sync-complete", "error"})

HandledMessages == {k \in DOMAIN posted : posted[k].handled}

\* The last message the main thread has posted.
LastMessage == uiMessages[Len(uiMessages)]

\* The messages of the main thread the UI has not taken yet.
Unseen == {k \in DOMAIN uiMessages : k > ui.seen}

\* C22: for every 'apply-datalayer' and every 'apply-data' message the
\* handler posts exactly one terminal message to the UI, 'sync-complete' with
\* the counts or 'error' with a message, whatever fails while applying: the
\* terminal messages are as many as the messages handled, and each is the
\* last message of its handler.  Hence the loading state the UI sets before
\* an apply is always cleared again: while loading is true, either the
\* message is still to be handled or a terminal message is still to be taken
\* by the UI, and once nothing is left to handle or to take, loading is false.
C22_OneTerminalMessage ==
    /\ Len(TerminalMessages) = Cardinality(HandledMessages)
    /\ HandledMessages # {} =>
            /\ LastMessage.type \in {"sync-complete", "error"}
            /\ LastMessage.type = "sync-complete" =>
                    /\ LastMessage.updated = applyOutcome.updated
                    /\ LastMessage.failed = applyOutcome.failed
            /\ LastMessage.type = "error" => LastMessage.message # <<>>
    /\ ui.loading =>
            \/ Unhandled # {}
            \/ \E k \in Unseen : uiMessages[k].type \in {"sync-complete", "error"}
    /\ Cardinality(Unhandled) <= 1
    /\ (Unhandled = {} /\ Unseen = {}) => ~ui.loading

\* An 'apply-data' message in which a write failed has been answered with
\* sync-complete, and the UI has cleared loading.
C22_Witness ==
    /\ applyMsg.type = "apply-data"
    /\ applyOutcome.failed > 0
    /\ \E k \in DOMAIN attempts : attempts[k].outcome = "caught"
    /\ Len(TerminalMessages) = 1
    /\ ui.seen = Len(uiMessages)
    /\ ~ui.loading

\* C27: when the 'apply-data' handler finishes, updated + failed equals the
\* number of results it was given: every result increments exactly one of
\* the two counters, on every path (missing node, missing original of a
\* repeated item, not found, wrong node type, exception).
C27_EveryResultCounted ==
    applyMsg.type = "apply-data" =>
        /\ applyOutcome.updated + applyOutcome.failed = Len(applyMsg.results)
        /\ Len(attempts) = Len(applyMsg.results)
        /\ \A k \in DOMAIN attempts :
            attempts[k].updated + attempts[k].failed = k

\* Two results, one for a removed node and one whose text node cannot be
\* written: both are counted as failed.
C27_Witness ==
    /\ applyMsg.type = "apply-data"
    /\ Len(applyMsg.results) = 2
    /\ attempts[1].outcome = "noNode"
    /\ attempts[2].outcome = "caught"
    /\ applyOutcome.failed = 2
    /\ applyOutcome.updated = 0

\* C29: applying is idempotent on the document: handling the results of an
\* 'apply-data' message (those of a '.all' selector, with originalId and
\* index, included) once more leaves the document with the same nodes and
\* the same text contents: a repeated sync adds no further clones.
C29_ApplyIdempotent ==
    applyMsg.type = "apply-data" =>
        LET again == ApplyResults(ApplyDataState(document.nodes, characters),
                                  applyMsg.results)
        IN  /\ again.nodes = document.nodes
            /\ again.characters = characters

\* ---- handleQuickSync: what one click on Sync Now applies ----

\* The calls of handleQuickSync whose `await handleFetch()` returns in this
\* step.
QuickSyncReturns ==
    {t \in DOMAIN tasks' :
        /\ tasks'[t].kind = "quickSync"
        /\ tasks'[t].pc = "done"
        /\ (t \in DOMAIN tasks => tasks[t].pc # "done")}

\* The fetch of call t returned at least one bus.
FetchedBuses(t) == tasks'[t].rejected = NoFetchError /\ Len(tasks'[t].allBuses) > 0

\* C26: one click on Sync Now sends to the plugin, in its 'apply-datalayer'
\* message, exactly the items returned by the fetch this click performed:
\* when the fetch of the click is over, an apply of the items it returned is
\* scheduled if it returned at least one bus (also on the first sync), and
\* nothing is scheduled otherwise (no bus, or the fetch failed); the message the
\* scheduled apply posts carries the items it was scheduled with.
C26_QuickSyncAppliesItsFetch ==
    [][/\ \A t \in QuickSyncReturns :
            IF FetchedBuses(t)
            THEN /\ Len(timers') = Len(timers) + 1
                 /\ timers'[Len(timers')].busData = tasks'[t].allBuses
            ELSE timers' = timers
       /\ (Len(timers') < Len(timers)) =>
            /\ Len(posted') = Len(posted) + 1
            /\ posted'[Len(posted')].items = Head(timers).busData
      ]_vars

\* ---- handleFetch: a batch that fails ----

\* The calls of handleFetch that ended in the catch block.
FailedBatches == {t \in DOMAIN tasks : tasks[t].rejected # NoFetchError}

\* C30: if the request for a URL of a batch fails after its retries,
\* handleFetch leaves busData, cachedData and history as they were before the
\* batch started: the buses accumulated from the earlier URLs of the batch
\* are discarded, and only the error and the loading state (with the status,
\* the retry count and the server flag) change.
C30_FailedBatchKeepsData ==
    \A t \in FailedBatches :
        /\ tasks[t].pc = "done"
        /\ ui.busData = tasks[t].busData
        /\ ui.cachedData = tasks[t].cachedData
        /\ ui.history = tasks[t].history
        /\ ~ui.loading
        /\ ui.error # <<>>

\* The second URL of a batch failed three times after the first URL had
\* returned a bus: the bus is in allBuses and nowhere in the state of the App.
C30_Witness ==
    \E t \in FailedBatches :
        /\ tasks[t].k = 2
        /\ Len(tasks[t].allBuses) = 1
        /\ Len(tasks[t].history) > 0
        /\ ui.busData = <<>>
        /\ ~ui.cachedData.set
        /\ ui.history = tasks[t].history

=============================================================================
